---------------------------- MODULE Spec2Model ----------------------------
(***************************************************************************)
(* A model of the SEO checker in src/index.js: one run of main() over a    *)
(* list of page documents.  Every page is analysed by checkPageSEO (which  *)
(* may suspend once, at the await of evaluateGenerateSEO), the records are *)
(* aggregated by the forEach loop of main(), and generateReport() scores   *)
(* them with calculateCategoryScores().                                     *)
(*                                                                         *)
(* Abstractions.  A document's text is represented by the results of the   *)
(* substring tests and pattern matches the code applies to it (one field   *)
(* per test).  A title or description string is represented by its length, *)
(* the only thing the code reads of it.  Scores are kept in half points    *)
(* (the code subtracts 0.5 per issue), so a score of 20 is the number 40.  *)
(***************************************************************************)
EXTENDS Integers, Sequences, FiniteSets, TLC

VARIABLES
    docs,         \* vueFiles: the page documents, in discovery order
    seoUtil,      \* the project's seo utility file (what evaluateGenerateSEO finds)
    next,         \* index of the next file vueFiles.map hands to checkPageSEO
    pc,           \* per document: "todo", "awaiting" (suspended at line 689), "done"
    frame,        \* per document: the locals of a suspended checkPageSEO
    microtasks,   \* FIFO of suspended checkPageSEO continuations
    pageResults,  \* per document: what its checkPageSEO promise resolved to
    results,      \* the results object of lines 90-121
    hostJSON,     \* the analyser's JSON object, seeded into every sandbox (line 242)
    notes,        \* number of "Could not dynamically evaluate" notes logged (line 322)
    evalCalls,    \* per document: how often evaluateGenerateSEO was invoked for it
    agg,          \* index of the next pageResults entry pageResults.forEach visits
    phase,        \* "analyse", "robots", "report", "done"; "hung", "exited"
    env,          \* the project files and environment read after aggregation
    exitCode,     \* -1 while running, else the process exit code
    report        \* what generateReport computed (Null before it ran)

vars == <<docs, seoUtil, next, pc, frame, microtasks, pageResults, results,
          hostJSON, notes, evalCalls, agg, phase, env, exitCode, report>>

-----------------------------------------------------------------------------
(* Bounds of the model *)

MaxDocs == 2

MaxPlain == 11

-----------------------------------------------------------------------------
(* Values *)

Null == [null |-> TRUE]

Undefined == "undefined"

NoLength == -1

\* A score of n points, in half points
Pts(n) == 2 * n

Max(a, b) == IF a >= b THEN a ELSE b

Min(a, b) == IF a <= b THEN a ELSE b

\* Math.round(20 * a / b) for a >= 0, b > 0: the nearest integer, halves up
Round20(a, b) == (40 * a + b) \div (2 * b)

RECURSIVE SeqSum(_)
SeqSum(s) == IF s = <<>> THEN 0 ELSE Head(s) + SeqSum(Tail(s))

SelectSeqLen(s, T(_)) == Len(SelectSeq(s, T))

Range(s) == {s[i] : i \in 1..Len(s)}

RECURSIVE Repeat(_, _)
Repeat(x, n) == IF n = 0 THEN <<>> ELSE <<x>> \o Repeat(x, n - 1)

-----------------------------------------------------------------------------
(* Documents: the text of a page file, as the code's tests see it *)

\* arrayParams of extractGenerateSEOParams
ArrayParams == {"faqs", "branches", "services", "products", "news"}

\* objectParams of extractGenerateSEOParams
ObjectParams == {"grant", "contactPage", "awards"}

\* What /param:\s*\[([\s\S]*?)\]/ finds in the argument text: no match
\* ("absent"), a match whose trimmed content is empty ("blank"), or content
\* holding `braces` opening braces ("text")
NoArray == [content |-> "absent", braces |-> 0]

ArrayText(n) == [content |-> "text", braces |-> n]

\* The argument text of the first generateSEO({...}) call: what each of the
\* patterns of lines 159-190 matches in it
Call(title, description, image) ==
    [title |-> title, description |-> description, image |-> image,
     arrays |-> [p \in ArrayParams |-> NoArray], objects |-> {}]

\* A page with no SEO call, no markup and no metadata text at all
PlainDoc ==
    [readable |-> TRUE,            \* fs.readFileSync succeeds (line 660)
     ignored |-> FALSE,            \* relativePath includes an ignorePath (665)
     hasGenerateSEO |-> FALSE,     \* content.includes('generateSEO(')
     hasUseSeoMeta |-> FALSE,      \* content.includes('useSeoMeta(')
     hasUseHead |-> FALSE,         \* content.includes('useHead(')
     call |-> Null,                \* match of /generateSEO\s*\(\s*\{...\}\s*\)/
     textTitle |-> NoLength,       \* first /title:\s*"..."/ of the whole text
     textDescription |-> NoLength, \* first /description:\s*"..."/ of the text
     textImage |-> Undefined,      \* first /image:\s*"..."/ of the whole text
     ogLiterals |-> {},            \* which of the og tag literals the text holds
     twitterLiterals |-> {},       \* which of the twitter tag literals
     canonicalText |-> FALSE,      \* content.includes('canonical:') (line 548)
     legacy |-> {},                \* which of 'contactPage:', 'grant:', ... (730-736)
     template |-> FALSE,           \* a <template>...</template> region exists
     headings |-> <<>>,            \* levels of the <h1>..<h6> tags, in order
     imgs |-> <<>>]                \* the <img>/<NuxtImg> tags: [alt, lazy]

\* The text of a page whose script holds the call c: the whole-text patterns
\* of checkMetaTags and the legacy substrings see the call's text too
LegacyOf(c) ==
    {p \in {"products", "services", "faqs"} : c.arrays[p].content # "absent"}
    \cup (c.objects \cap {"grant", "contactPage"})

WithCall(d, c) ==
    [d EXCEPT !.hasGenerateSEO = TRUE, !.call = c,
              !.textTitle = IF d.textTitle # NoLength THEN d.textTitle ELSE c.title,
              !.textDescription = IF d.textDescription # NoLength
                                  THEN d.textDescription ELSE c.description,
              !.textImage = IF d.textImage # Undefined THEN d.textImage
                            ELSE IF c.image = "" THEN Undefined ELSE c.image,
              !.legacy = d.legacy \cup LegacyOf(c)]

\* The short name of the i-th discovered page (path relative to the pages
\* directory, without .vue): distinct files have distinct names
PageName(i) == i

-----------------------------------------------------------------------------
(* extractGenerateSEOParams, lines 150-193 *)

\* A key the params object does not hold reads as undefined: every test the
\* code makes of it (&&, > 0, if) treats that like 0 / false
NoParams ==
    [title |-> NoLength, description |-> NoLength, image |-> Undefined,
     faqs |-> 0, branches |-> 0, services |-> 0, products |-> 0, news |-> 0,
     grant |-> FALSE, contactPage |-> FALSE, awards |-> FALSE,
     breadcrumb |-> FALSE]

\* lines 173-180: the cardinality of an array parameter
ArrayCount(a) ==
    IF a.content = "text" THEN (IF a.braces > 0 THEN a.braces ELSE 1) ELSE 0

\* Mutant of line 153: the early return is missing, and an empty params
\* object is returned when no call is matched
extractGenerateSEOParams_noEarlyReturn(content) ==
    IF content.call = Null THEN NoParams
    ELSE LET c == content.call IN
         [NoParams EXCEPT !.title = c.title, !.description = c.description,
                          !.image = IF c.image = "" THEN Undefined ELSE c.image]

extractGenerateSEOParams(content) ==
    IF content.call = Null THEN Null
    ELSE LET c == content.call IN
         [NoParams EXCEPT
            !.title = c.title,
            !.description = c.description,
            \* imageMatch[1] || imageMatch[2]: an empty match is undefined
            !.image = IF c.image = "" THEN Undefined ELSE c.image,
            !.faqs = ArrayCount(c.arrays["faqs"]),
            !.branches = ArrayCount(c.arrays["branches"]),
            !.services = ArrayCount(c.arrays["services"]),
            !.products = ArrayCount(c.arrays["products"]),
            !.news = ArrayCount(c.arrays["news"]),
            !.grant = "grant" \in c.objects,
            !.contactPage = "contactPage" \in c.objects,
            !.awards = "awards" \in c.objects]

-----------------------------------------------------------------------------
(* The sandbox: evaluateGenerateSEO, lines 198-325 *)

\* One entry of the meta list an entry point returns.  `length` is
\* content.length; NoLength stands for an entry that has no content
Meta(name, property, length, content) ==
    [name |-> name, hid |-> name, property |-> property,
     length |-> length, content |-> content]

\* One member of a structured-data graph; mainEntity is the length of the
\* member's mainEntity array, NoLength when it has none
Item(type, mainEntity) == [type |-> type, mainEntity |-> mainEntity]

\* The stub helpers of lines 266-307, applied to what the analyser passes:
\* the extracted params hold a collection's COUNT, a number, and a number has
\* no .length, so `!faqs || !faqs.length` is true and the stub returns [].
generateFAQSchema(faqs) == <<>>

generateBranchSchema(branches) == <<>>

generateServiceSchema(services) == <<>>

generateProductSchema(products) == <<>>

generateNewsArticleSchema == <<>>

generateGrantSchema(grant) == IF grant THEN <<Item("Grant", NoLength)>> ELSE <<>>

generateContactPageSchema(contactPage) ==
    IF contactPage THEN <<Item("ContactPage", NoLength)>> ELSE <<>>

\* The text of a script payload: whether it is well-formed JSON and, if so,
\* the @graph member of the value it denotes (hasGraph: it has one)
Payload(wellFormed, hasGraph, graph) ==
    [wellFormed |-> wellFormed, hasGraph |-> hasGraph, graph |-> graph]

\* What an entry point returns: meta (metaKind: the key holds a "list", is
\* "absent", or holds an "object" that is no list), the rel values of its
\* link list, and script[0].innerHTML (Null: none)
Output(metaKind, meta, link, script) ==
    [metaKind |-> metaKind, meta |-> meta, link |-> link, script |-> script]

OgEntries(image) ==
    <<Meta("", "og:title", 1, ""), Meta("", "og:description", 1, ""),
      Meta("", "og:image", 1, image), Meta("", "og:url", 1, ""),
      Meta("", "og:type", 1, "")>>

TwitterEntries ==
    <<Meta("twitter:card", "", 1, ""), Meta("twitter:title", "", 1, ""),
      Meta("twitter:description", "", 1, ""), Meta("twitter:image", "", 1, "")>>

\* A conforming generateSEO: title and description entries from its
\* parameters, the open-graph and card entries, a canonical link, and a
\* JSON-LD graph of the base types plus what the stub helpers return
ConformingGraph(params) ==
    <<Item("WebPage", NoLength), Item("Organization", NoLength)>>
    \o generateFAQSchema(params.faqs)
    \o generateBranchSchema(params.branches)
    \o generateServiceSchema(params.services)
    \o generateProductSchema(params.products)
    \o generateNewsArticleSchema
    \o generateGrantSchema(params.grant)
    \o generateContactPageSchema(params.contactPage)

ConformingMeta(params) ==
    (IF params.title # NoLength
     THEN <<Meta("title", "", params.title, "")>> ELSE <<>>)
    \o (IF params.description # NoLength
        THEN <<Meta("description", "", params.description, "")>> ELSE <<>>)
    \o OgEntries(params.image) \o TwitterEntries

ConformingOutput(params) ==
    Output("list", ConformingMeta(params), <<"canonical">>,
           Payload(TRUE, TRUE, ConformingGraph(params)))

\* The image a parameter-mutating entry point writes into its argument
HijackImage == "hijack.png"

\* The generateSEO definitions a utility file may hold (the file is an input
\* of the run): what running the extracted function on `params` does
EntryPoints ==
    {"conforming",     \* returns ConformingOutput
     "titleOnly",      \* returns a meta list holding only the title entry
     "noMeta",         \* returns an object without a meta list
     "noScript",       \* conforming, but without a script payload
     "badJsonLd",      \* conforming, but the payload is not well-formed JSON
     "returnsNothing", \* returns undefined
     "metaNotList",    \* returns { meta: {...} }: meta is no list
     "titleNoContent", \* conforming, but the title entry has no content
     "throwsError",    \* throw new Error(...)
     "throwsNull",     \* throw null
     "mutatesParams",  \* params.image = ...; then conforming
     "patchesJSON",    \* JSON.parse = ...; then conforming
     "readsClock",     \* if (new Date().getSeconds() % 2) throw ...; else conforming
     "loops"}          \* while (true) {}

\* Entry points that build their JSON-LD payload themselves
GraphEntryPoints ==
    {"inlineGraph",    \* its graph holds a member without @type and a FAQPage
                       \* member with a mainEntity array of two
     "noGraph"}        \* its payload is well-formed JSON without @graph

\* The graph of the entry point "inlineGraph"
InlineGraph ==
    <<Item("WebPage", NoLength), Item("", NoLength), Item("FAQPage", 2)>>

\* The utility file: none of the four candidate paths exists ("absent"),
\* readFileSync fails on the one found ("unreadable"), the definition pattern
\* of line 254 does not match its text ("noMatch"), or it holds an entry point
UtilFiles == {"absent", "unreadable", "noMatch"} \cup EntryPoints

\* What the analyser's Date, seeded into every context (line 241), reads
\* when an entry point asks it: the parity of the seconds
ClockReadings == {"even", "odd"}

\* What was thrown: an Error object or the value null
Thrown(what) == [thrown |-> what]

\* The outcome of one call: the promise settles ("returned" with `value`,
\* "rejected") or the call never comes back ("hung"); `params` and `hostJSON`
\* are the caller's argument object and the analyser's JSON object afterwards;
\* `note` counts the diagnostic line of the catch block
Outcome(how, value, params, json, note) ==
    [how |-> how, value |-> value, params |-> params, hostJSON |-> json,
     note |-> note]

\* script.runInContext(context), lines 315-317, for the entry point `util`.
\* The context object is { ...sandbox, params }: a new object whose
\* properties hold the SAME params object the caller passed and the
\* analyser's own console, Date, JSON, Object, ... objects; `now` is what
\* that Date reads during the call.
runInContext(util, params, json, now) ==
    CASE util = "conforming" ->
           Outcome("returned", ConformingOutput(params), params, json, 0)
      [] util = "titleOnly" ->
           Outcome("returned",
                   Output("list",
                          IF params.title # NoLength
                          THEN <<Meta("title", "", params.title, "")>> ELSE <<>>,
                          <<>>, Null),
                   params, json, 0)
      [] util = "noMeta" ->
           Outcome("returned", Output("absent", <<>>, <<>>, Null), params, json, 0)
      [] util = "noScript" ->
           Outcome("returned",
                   Output("list", ConformingMeta(params), <<"canonical">>, Null),
                   params, json, 0)
      [] util = "badJsonLd" ->
           Outcome("returned",
                   Output("list", ConformingMeta(params), <<"canonical">>,
                          Payload(FALSE, FALSE, <<>>)),
                   params, json, 0)
      [] util = "returnsNothing" ->
           Outcome("returned", Null, params, json, 0)
      [] util = "metaNotList" ->
           Outcome("returned", Output("object", <<>>, <<>>, Null), params, json, 0)
      [] util = "titleNoContent" ->
           Outcome("returned",
                   Output("list",
                          <<Meta("title", "", NoLength, "")>>
                          \o OgEntries(params.image) \o TwitterEntries,
                          <<"canonical">>, Null),
                   params, json, 0)
      [] util = "throwsError" ->
           Outcome("threw", Thrown("Error"), params, json, 0)
      [] util = "throwsNull" ->
           Outcome("threw", Thrown("null"), params, json, 0)
      [] util = "mutatesParams" ->
           LET p == [params EXCEPT !.image = HijackImage] IN
           Outcome("returned", ConformingOutput(p), p, json, 0)
      [] util = "patchesJSON" ->
           Outcome("returned", ConformingOutput(params), params, "patched", 0)
      [] util = "readsClock" ->
           IF now = "odd"
           THEN Outcome("threw", Thrown("Error"), params, json, 0)
           ELSE Outcome("returned", ConformingOutput(params), params, json, 0)
      [] util = "loops" ->
           Outcome("hung", Null, params, json, 0)
      [] util = "inlineGraph" ->
           Outcome("returned",
                   Output("list", ConformingMeta(params), <<"canonical">>,
                          Payload(TRUE, TRUE, InlineGraph)),
                   params, json, 0)
      [] util = "noGraph" ->
           Outcome("returned",
                   Output("list", ConformingMeta(params), <<"canonical">>,
                          Payload(TRUE, FALSE, <<>>)),
                   params, json, 0)

\* The catch block, lines 320-324: `error.message` is read of whatever was
\* thrown; reading a property of null is itself a TypeError, thrown out of
\* the catch block
catchBlock(o) ==
    IF o.value = Thrown("null")
    THEN Outcome("rejected", Null, o.params, o.hostJSON, 0)
    ELSE Outcome("returned", Null, o.params, o.hostJSON, 1)

evaluateGenerateSEO(params, util, json, now) ==
    IF util = "absent" THEN Outcome("returned", Null, params, json, 0)
    ELSE IF util = "unreadable"
         THEN catchBlock(Outcome("threw", Thrown("Error"), params, json, 0))
    ELSE IF util = "noMatch" THEN Outcome("returned", Null, params, json, 0)
    ELSE LET o == runInContext(util, params, json, now) IN
         IF o.how = "threw" THEN catchBlock(o) ELSE o

-----------------------------------------------------------------------------
(* mapParamsToSchemas, lines 330-378 *)

\* A structured-data entry: `type (count units)` when count > 0, else `type`
Schema(type, count) == [type |-> type, count |-> count]

\* Mutant of lines 344-350: the Service entry pushed under the products test
mapParamsToSchemas_copyPaste(params) ==
    IF params = Null THEN <<>>
    ELSE <<Schema("WebPage", 0), Schema("Organization", 0)>>
         \o (IF params.faqs > 0 THEN <<Schema("FAQPage", params.faqs)>> ELSE <<>>)
         \o (IF params.products > 0
             THEN <<Schema("Product", params.products)>> ELSE <<>>)
         \o (IF params.products > 0
             THEN <<Schema("Service", params.services)>> ELSE <<>>)
         \o (IF params.branches > 0
             THEN <<Schema("LocalBusiness", params.branches)>> ELSE <<>>)
         \o (IF params.news > 0
             THEN <<Schema("NewsArticle", params.news)>> ELSE <<>>)
         \o (IF params.grant THEN <<Schema("Grant", 0)>> ELSE <<>>)
         \o (IF params.contactPage THEN <<Schema("ContactPage", 0)>> ELSE <<>>)
         \o (IF params.awards THEN <<Schema("Awards", 0)>> ELSE <<>>)
         \o (IF params.breadcrumb THEN <<Schema("BreadcrumbList", 0)>> ELSE <<>>)

mapParamsToSchemas(params) ==
    IF params = Null THEN <<>>
    ELSE <<Schema("WebPage", 0), Schema("Organization", 0)>>
         \o (IF params.faqs > 0 THEN <<Schema("FAQPage", params.faqs)>> ELSE <<>>)
         \o (IF params.products > 0
             THEN <<Schema("Product", params.products)>> ELSE <<>>)
         \o (IF params.services > 0
             THEN <<Schema("Service", params.services)>> ELSE <<>>)
         \o (IF params.branches > 0
             THEN <<Schema("LocalBusiness", params.branches)>> ELSE <<>>)
         \o (IF params.news > 0
             THEN <<Schema("NewsArticle", params.news)>> ELSE <<>>)
         \o (IF params.grant THEN <<Schema("Grant", 0)>> ELSE <<>>)
         \o (IF params.contactPage THEN <<Schema("ContactPage", 0)>> ELSE <<>>)
         \o (IF params.awards THEN <<Schema("Awards", 0)>> ELSE <<>>)
         \o (IF params.breadcrumb THEN <<Schema("BreadcrumbList", 0)>> ELSE <<>>)

-----------------------------------------------------------------------------
(* checkMetaTags, lines 383-556 *)

TitleMin == 30

TitleMax == 60

DescriptionMin == 120

DescriptionMax == 160

\* An issue string: its fixed text, the length it quotes (NoLength: none) and
\* the field names it lists
Issue(msg, len, missing) == [msg |-> msg, len |-> len, missing |-> missing]

\* Mutant of lines 400-404: the limits themselves counted as out of band
TitleLengthIssues_inclusive(len) ==
    IF len <= TitleMin THEN <<Issue("Title too short", len, <<>>)>>
    ELSE IF len >= TitleMax THEN <<Issue("Title too long", len, <<>>)>>
    ELSE <<>>

\* lines 400-404 and 469-473
TitleLengthIssues(len) ==
    IF len < TitleMin THEN <<Issue("Title too short", len, <<>>)>>
    ELSE IF len > TitleMax THEN <<Issue("Title too long", len, <<>>)>>
    ELSE <<>>

\* lines 412-416 and 483-487
DescriptionLengthIssues(len) ==
    IF len < DescriptionMin
    THEN <<Issue("Meta description too short", len, <<>>)>>
    ELSE IF len > DescriptionMax
    THEN <<Issue("Meta description too long", len, <<>>)>>
    ELSE <<>>

requiredOgTags == <<"title", "description", "image", "url">>

requiredTwitterTags == <<"card", "title", "description", "image">>

\* requiredTags.filter(tag => !present[tag]), then one issue if any is left
MissingIssues(msg, required, present) ==
    LET NotPresent(tag) == tag \notin present
        missing == SelectSeq(required, NotPresent)
    IN  IF Len(missing) > 0 THEN <<Issue(msg, NoLength, missing)>> ELSE <<>>

\* seoOutput.meta.find(m => m.name === key || m.hid === key); <<>> if none
FindMeta(meta, key) ==
    LET Is(m) == m.name = key \/ m.hid = key
        found == SelectSeq(meta, Is)
    IN  IF found = <<>> THEN <<>> ELSE <<Head(found)>>

\* m.property.startsWith('og:') and the tag name after replace('og:', '')
OgPrefixed == {"og:title", "og:description", "og:image", "og:url", "og:type",
               "og:site_name"}

TwitterPrefixed == {"twitter:card", "twitter:title", "twitter:description",
                    "twitter:image", "twitter:site"}

\* tag.replace('og:', '').replace(/([A-Z])/g, lower) and the same for
\* twitter: on the literals of lines 508-512 and 528-532
TagName(tag) ==
    CASE tag = "og:title" -> "title"
      [] tag = "og:description" -> "description"
      [] tag = "og:image" -> "image"
      [] tag = "og:url" -> "url"
      [] tag = "og:type" -> "type"
      [] tag = "og:site_name" -> "site_name"
      [] tag = "ogTitle" -> "ogtitle"
      [] tag = "ogDescription" -> "ogdescription"
      [] tag = "ogImage" -> "ogimage"
      [] tag = "ogUrl" -> "ogurl"
      [] tag = "ogType" -> "ogtype"
      [] tag = "ogSiteName" -> "ogsitename"
      [] tag = "twitter:card" -> "card"
      [] tag = "twitter:title" -> "title"
      [] tag = "twitter:description" -> "description"
      [] tag = "twitter:image" -> "image"
      [] tag = "twitter:site" -> "site"
      [] tag = "twitterCard" -> "twittercard"
      [] tag = "twitterTitle" -> "twittertitle"
      [] tag = "twitterDescription" -> "twitterdescription"
      [] tag = "twitterImage" -> "twitterimage"

\* The literals the static path searches the text for
ogTags == OgPrefixed \cup {"ogTitle", "ogDescription", "ogImage", "ogUrl",
                           "ogType", "ogSiteName"}

twitterTags == TwitterPrefixed \cup {"twitterCard", "twitterTitle",
                                     "twitterDescription", "twitterImage"}

\* The record checkMetaTags returns.  `dynamic` is a history field: whether
\* the record was filled from the sandbox's output (lines 394-461).
\* `threw`: the call raised a TypeError instead of returning.
MetaInfo(title, description, og, twitter, canonical, issues, ogImage, dynamic) ==
    [title |-> title, description |-> description, ogTags |-> og,
     twitterTags |-> twitter, canonical |-> canonical, issues |-> issues,
     ogImage |-> ogImage, dynamic |-> dynamic, threw |-> FALSE]

MetaThrew == [threw |-> TRUE]

\* lines 394-461: the record from the entry point's actual output
checkMetaTagsDynamic(seoOutput) ==
    LET meta == seoOutput.meta
        titleMeta == FindMeta(meta, "title")
        descMeta == FindMeta(meta, "description")
        IsOg(m) == m.property \in OgPrefixed
        IsTwitter(m) == m.name \in TwitterPrefixed
        og == {TagName(m.property) : m \in Range(SelectSeq(meta, IsOg))}
        twitter == {TagName(m.name) : m \in Range(SelectSeq(meta, IsTwitter))}
        IsOgImage(m) == m.property = "og:image"
        ogImages == SelectSeq(meta, IsOgImage)
        canonical == "canonical" \in Range(seoOutput.link)
    IN  IF \/ seoOutput.metaKind = "object"
           \/ (titleMeta # <<>> /\ titleMeta[1].length = NoLength)
           \/ (descMeta # <<>> /\ descMeta[1].length = NoLength)
        THEN MetaThrew
        ELSE MetaInfo(
               IF titleMeta # <<>> THEN titleMeta[1].length ELSE NoLength,
               IF descMeta # <<>> THEN descMeta[1].length ELSE NoLength,
               og, twitter, canonical,
               (IF titleMeta # <<>>
                THEN TitleLengthIssues(titleMeta[1].length) ELSE <<>>)
               \o (IF descMeta # <<>>
                   THEN DescriptionLengthIssues(descMeta[1].length) ELSE <<>>)
               \o MissingIssues("Missing Open Graph tags", requiredOgTags, og)
               \o MissingIssues("Missing Twitter Card tags", requiredTwitterTags,
                                twitter)
               \o (IF canonical THEN <<>>
                   ELSE <<Issue("Missing canonical URL", NoLength, <<>>)>>),
               \* the last og:image entry wins (forEach, line 426)
               IF ogImages # <<>> THEN ogImages[Len(ogImages)].content
               ELSE Undefined,
               TRUE)

\* lines 463-556: the record from the text alone
checkMetaTagsStatic(content) ==
    LET titleIssues ==
            IF content.textTitle # NoLength
            THEN TitleLengthIssues(content.textTitle)
            ELSE <<Issue("Missing page title", NoLength, <<>>)>>
        descIssues ==
            IF content.textDescription # NoLength
            THEN DescriptionLengthIssues(content.textDescription)
            ELSE <<Issue("Missing meta description", NoLength, <<>>)>>
        og == {TagName(t) : t \in content.ogLiterals}
        twitter == {TagName(t) : t \in content.twitterLiterals}
    IN  IF content.hasGenerateSEO
        THEN MetaInfo(content.textTitle, content.textDescription,
                      {"title", "description", "image", "url", "type", "site_name"},
                      {"card", "title", "description", "image", "site"},
                      TRUE, titleIssues \o descIssues, content.textImage, FALSE)
        ELSE MetaInfo(content.textTitle, content.textDescription,
                      og, twitter, content.canonicalText,
                      titleIssues \o descIssues
                      \o MissingIssues("Missing Open Graph tags", requiredOgTags, og)
                      \o MissingIssues("Missing Twitter Card tags",
                                       requiredTwitterTags, twitter)
                      \o (IF content.canonicalText THEN <<>>
                          ELSE <<Issue("Missing canonical URL", NoLength, <<>>)>>),
                      Undefined, FALSE)

\* line 394: the dynamic path is taken iff seoOutput && seoOutput.meta
checkMetaTags(content, seoOutput) ==
    IF seoOutput # Null /\ seoOutput.metaKind # "absent"
    THEN checkMetaTagsDynamic(seoOutput)
    ELSE checkMetaTagsStatic(content)

-----------------------------------------------------------------------------
(* checkHeadingStructure, lines 561-604, and checkImages, lines 609-653 *)

\* lines 585-596: some heading is more than one level below the one before it
RECURSIVE HierarchyBroken(_, _)
HierarchyBroken(headings, lastLevel) ==
    IF headings = <<>> THEN FALSE
    ELSE \/ (lastLevel > 0 /\ Head(headings) > lastLevel + 1)
         \/ HierarchyBroken(Tail(headings), Head(headings))

\* Mutant of lines 592-599: the issue is pushed inside the loop, once for
\* every heading that skips a level
checkHeadingStructure_perSkip(content) ==
    IF ~content.template
    THEN [h1Count |-> 0, headings |-> <<>>, issues |-> <<>>]
    ELSE LET IsH1(l) == l = 1
             h1Count == Len(SelectSeq(content.headings, IsH1))
             skips == {k \in 2..Len(content.headings) :
                         content.headings[k] > content.headings[k - 1] + 1}
         IN  [h1Count |-> h1Count,
              headings |-> content.headings,
              issues |->
                (IF h1Count = 0 THEN <<Issue("No H1 tag found", NoLength, <<>>)>>
                 ELSE IF h1Count > 1
                 THEN <<Issue("Multiple H1 tags found", h1Count, <<>>)>>
                 ELSE <<>>)
                \o [k \in 1..Cardinality(skips) |->
                      Issue("Heading hierarchy broken (skipped levels)",
                            NoLength, <<>>)]]

checkHeadingStructure(content) ==
    IF ~content.template
    THEN [h1Count |-> 0, headings |-> <<>>, issues |-> <<>>]
    ELSE LET IsH1(l) == l = 1
             h1Count == Len(SelectSeq(content.headings, IsH1))
         IN  [h1Count |-> h1Count,
              headings |-> content.headings,
              issues |->
                (IF h1Count = 0 THEN <<Issue("No H1 tag found", NoLength, <<>>)>>
                 ELSE IF h1Count > 1
                 THEN <<Issue("Multiple H1 tags found", h1Count, <<>>)>>
                 ELSE <<>>)
                \o (IF HierarchyBroken(content.headings, 0)
                    THEN <<Issue("Heading hierarchy broken (skipped levels)",
                                 NoLength, <<>>)>>
                    ELSE <<>>)]

\* An image tag: `alt` is img.includes('alt=') && !img.includes('alt=""') &&
\* !img.includes("alt=''"), `lazy` is the test of lines 643-645
Img(alt, lazy) == [alt |-> alt, lazy |-> lazy]

checkImages(content) ==
    IF ~content.template
    THEN [totalImages |-> 0, imagesWithAlt |-> 0, imagesWithoutAlt |-> 0,
          issues |-> <<>>]
    ELSE LET HasAlt(img) == img.alt
             IsLazy(img) == img.lazy
             total == Len(content.imgs)
             withAlt == Len(SelectSeq(content.imgs, HasAlt))
             lazyLoaded == Len(SelectSeq(content.imgs, IsLazy))
         IN  [totalImages |-> total,
              imagesWithAlt |-> withAlt,
              imagesWithoutAlt |-> total - withAlt,
              issues |->
                (IF total - withAlt > 0
                 THEN <<Issue("images missing alt text", total - withAlt, <<>>)>>
                 ELSE <<>>)
                \o (IF total > 2 /\ lazyLoaded < total - 2
                    THEN <<Issue("Consider implementing lazy loading", NoLength,
                                 <<>>)>>
                    ELSE <<>>)]

-----------------------------------------------------------------------------
(* checkPageSEO, lines 658-763 *)

\* Mutants of line 753: the parentheses left out (&& binds tighter than ||),
\* and === written for &&
hasSEO_noParentheses(content) ==
    content.hasGenerateSEO \/ (content.hasUseSeoMeta /\ content.hasUseHead)

hasSEO_sameAsHead(content) ==
    (content.hasGenerateSEO \/ content.hasUseSeoMeta) = content.hasUseHead

\* line 753
hasSEO(content) ==
    (content.hasGenerateSEO \/ content.hasUseSeoMeta) /\ content.hasUseHead

\* JSON.parse(seoOutput.script[0].innerHTML) with the analyser's JSON object:
\* "threw" on text that is not JSON (and whenever an entry point has
\* replaced JSON.parse by a function that throws), else the parsed value
JSONparse(payload, json) ==
    IF json = "native" /\ payload.wellFormed THEN payload ELSE Thrown("SyntaxError")

\* lines 697-709: the type list of a parsed graph
RECURSIVE GraphSchemas(_)
GraphSchemas(graph) ==
    IF graph = <<>> THEN <<>>
    ELSE LET item == Head(graph) IN
         (IF item.type = "" THEN <<>>
          ELSE IF item.type = "FAQPage" /\ item.mainEntity # NoLength
          THEN <<Schema("FAQPage", item.mainEntity)>>
          ELSE <<Schema(item.type, 0)>>)
         \o GraphSchemas(Tail(graph))

\* lines 728-737: legacy detection from the text
legacySchemas(content) ==
    (IF "contactPage" \in content.legacy THEN <<Schema("ContactPage", 0)>> ELSE <<>>)
    \o (IF "grant" \in content.legacy THEN <<Schema("Grant", 0)>> ELSE <<>>)
    \o (IF "products" \in content.legacy THEN <<Schema("Product", 0)>> ELSE <<>>)
    \o (IF "services" \in content.legacy THEN <<Schema("Service", 0)>> ELSE <<>>)
    \o (IF "faqs" \in content.legacy THEN <<Schema("FAQPage", 0)>> ELSE <<>>)
    \o (IF "breadcrumb" \in content.legacy
        THEN <<Schema("BreadcrumbList", 0)>> ELSE <<>>)

\* Mutant of lines 718-721: without output the type list is left empty
\* instead of being mapped from the parameters
evaluatedSchemas_noMapping(extractedParams, seoOutput, json) ==
    IF seoOutput # Null
    THEN IF seoOutput.script # Null
         THEN LET jsonLd == JSONparse(seoOutput.script, json) IN
              IF jsonLd = Thrown("SyntaxError")
              THEN mapParamsToSchemas(extractedParams)
              ELSE IF jsonLd.hasGraph THEN GraphSchemas(jsonLd.graph) ELSE <<>>
         ELSE mapParamsToSchemas(extractedParams)
    ELSE <<>>

\* Mutant of lines 711-714: the catch block leaves the type list empty
evaluatedSchemas_emptyCatch(extractedParams, seoOutput, json) ==
    IF seoOutput # Null
    THEN IF seoOutput.script # Null
         THEN LET jsonLd == JSONparse(seoOutput.script, json) IN
              IF jsonLd = Thrown("SyntaxError")
              THEN <<>>
              ELSE IF jsonLd.hasGraph THEN GraphSchemas(jsonLd.graph) ELSE <<>>
         ELSE mapParamsToSchemas(extractedParams)
    ELSE mapParamsToSchemas(extractedParams)

\* lines 691-722: the type list when parameters were extracted
evaluatedSchemas(extractedParams, seoOutput, json) ==
    IF seoOutput # Null
    THEN IF seoOutput.script # Null
         THEN LET jsonLd == JSONparse(seoOutput.script, json) IN
              IF jsonLd = Thrown("SyntaxError")
              THEN mapParamsToSchemas(extractedParams)
              ELSE IF jsonLd.hasGraph THEN GraphSchemas(jsonLd.graph) ELSE <<>>
         ELSE mapParamsToSchemas(extractedParams)
    ELSE mapParamsToSchemas(extractedParams)

\* lines 679-737
pageSchemas(content, extractedParams, seoOutput, json) ==
    IF ~content.hasGenerateSEO THEN <<>>
    ELSE LET schemas == IF extractedParams # Null
                        THEN evaluatedSchemas(extractedParams, seoOutput, json)
                        ELSE <<>>
         IN  IF Len(schemas) = 0 THEN legacySchemas(content) ELSE schemas

\* Mutant of lines 741-762: a TypeError of checkMetaTags is swallowed and
\* the record is returned with what had been collected
pageRecord_swallow(i, content, extractedParams, seoOutput, json) ==
    [pageName |-> PageName(i),
     hasGenerateSEO |-> content.hasGenerateSEO,
     hasUseSeoMeta |-> content.hasUseSeoMeta,
     hasUseHead |-> content.hasUseHead,
     schemas |-> pageSchemas(content, extractedParams, seoOutput, json),
     schemaDetails |-> IF content.hasGenerateSEO THEN extractedParams ELSE Null,
     hasSEO |-> hasSEO(content),
     metaTags |-> checkMetaTags(content, seoOutput),
     headings |-> checkHeadingStructure(content),
     images |-> checkImages(content)]

\* lines 691-758, after the await: the record of page i, or Null when
\* checkMetaTags threw (the catch block of line 759 returns null)
pageRecord(i, content, extractedParams, seoOutput, json) ==
    LET metaTagInfo == checkMetaTags(content, seoOutput) IN
    IF metaTagInfo.threw THEN Null
    ELSE [pageName |-> PageName(i),
          hasGenerateSEO |-> content.hasGenerateSEO,
          hasUseSeoMeta |-> content.hasUseSeoMeta,
          hasUseHead |-> content.hasUseHead,
          schemas |-> pageSchemas(content, extractedParams, seoOutput, json),
          schemaDetails |-> IF content.hasGenerateSEO THEN extractedParams ELSE Null,
          hasSEO |-> hasSEO(content),
          metaTags |-> metaTagInfo,
          headings |-> checkHeadingStructure(content),
          images |-> checkImages(content)]

-----------------------------------------------------------------------------
(* main, lines 1399-1449: the aggregation loop *)

\* The image references a page can carry
Images == {"a.png", "b.png", HijackImage}

\* lines 90-121.  ogImageUsage maps an image to the page names pushed under
\* it; an image with no entry maps to <<>> (an entry is never left empty).
\* imageStats.imagesWithoutAlt is an array in the code and is never written.
InitialResults ==
    [pagesWithSEO |-> <<>>,
     pagesWithoutSEO |-> <<>>,
     sitemapPages |-> {},
     missingFromSitemap |-> <<>>,
     robotsConfig |-> Null,
     warnings |-> <<>>,
     errors |-> <<>>,
     imageStats |-> [totalImages |-> 0, imagesWithAlt |-> 0,
                     imagesWithoutAlt |-> <<>>],
     ogImageUsage |-> [image \in Images |-> <<>>],
     pagesWithoutOGImage |-> <<>>,
     categoryScores |->
        [c \in {"metaTags", "technicalSEO", "structuredData", "imagesMedia",
                "socialSharing"} |->
            [score |-> 0, maxScore |-> Pts(20), issues |-> <<>>]]]

\* Mutant of lines 1425-1434: the list is assigned, not pushed to
trackImage_overwrite(r, result) ==
    IF result.schemaDetails # Null /\ result.schemaDetails.image # Undefined
    THEN [r EXCEPT !.ogImageUsage[result.schemaDetails.image] = <<result.pageName>>]
    ELSE IF result.hasGenerateSEO
    THEN [r EXCEPT !.pagesWithoutOGImage = Append(@, result.pageName)]
    ELSE r

\* Mutant of line 1433: every covered page without an image is listed as
\* missing one, whether or not its text holds generateSEO(
trackImage_anyCovered(r, result) ==
    IF result.schemaDetails # Null /\ result.schemaDetails.image # Undefined
    THEN [r EXCEPT !.ogImageUsage[result.schemaDetails.image] =
                       Append(@, result.pageName)]
    ELSE [r EXCEPT !.pagesWithoutOGImage = Append(@, result.pageName)]

\* lines 1425-1434: the image bookkeeping of a covered page
trackImage(r, result) ==
    IF result.schemaDetails # Null /\ result.schemaDetails.image # Undefined
    THEN [r EXCEPT !.ogImageUsage[result.schemaDetails.image] =
                       Append(@, result.pageName)]
    ELSE IF result.hasGenerateSEO
    THEN [r EXCEPT !.pagesWithoutOGImage = Append(@, result.pageName)]
    ELSE r

\* lines 1420-1438: one iteration of pageResults.forEach
aggregate(r, result) ==
    IF result = Null THEN r
    ELSE IF result.hasSEO
    THEN trackImage([r EXCEPT !.pagesWithSEO = Append(@, result)], result)
    ELSE [r EXCEPT !.pagesWithoutSEO = Append(@, result)]

-----------------------------------------------------------------------------
(* calculateCategoryScores, lines 845-962.  Scores are in half points. *)

\* An entry of a category's issue list: `${page.pageName}: ${issue}`, or an
\* issue of no page (page 0)
Attr(page, issues) == [page |-> page, issues |-> issues]

\* The sum of F(page) over a list of page records
SumOver(pages, F(_)) == SeqSum([k \in 1..Len(pages) |-> F(pages[k])])

\* The issue entries a list of pages contributes: one per issue of a page
RECURSIVE Flatten(_)
Flatten(ss) == IF ss = <<>> THEN <<>> ELSE Head(ss) \o Flatten(Tail(ss))

PageIssues(pages, Issues(_)) ==
    Flatten([k \in 1..Len(pages) |->
               [j \in 1..Len(Issues(pages[k])) |->
                  Attr(pages[k].pageName, <<Issues(pages[k])[j]>>)]])

\* Mutants of lines 849-863: Math.max(0, ...) left out, and a penalty of 1
\* instead of 2 per page without SEO
metaTagsScore_noFloor(r) ==
    LET IssueCount(page) == Len(page.metaTags.issues) IN
    Pts(20) - SumOver(r.pagesWithSEO, IssueCount) - Pts(2) * Len(r.pagesWithoutSEO)

metaTagsScore_onePerPage(r) ==
    LET IssueCount(page) == Len(page.metaTags.issues) IN
    Max(0, Pts(20) - SumOver(r.pagesWithSEO, IssueCount)
                   - Pts(1) * Len(r.pagesWithoutSEO))

\* Mutant of lines 851-862: the issues of the pages without SEO are
\* subtracted as well
metaTagsScore_allIssues(r) ==
    LET IssueCount(page) == Len(page.metaTags.issues) IN
    Max(0, Pts(20) - SumOver(r.pagesWithSEO, IssueCount)
                   - SumOver(r.pagesWithoutSEO, IssueCount)
                   - Pts(2) * Len(r.pagesWithoutSEO))

\* lines 849-863
metaTagsScore(r) ==
    LET IssueCount(page) == Len(page.metaTags.issues)
        metaScore == Pts(20) - SumOver(r.pagesWithSEO, IssueCount)
                             - Pts(2) * Len(r.pagesWithoutSEO)
    IN  Max(0, metaScore)

metaTagsIssues(r) ==
    LET MetaIssues(page) == page.metaTags.issues IN
    PageIssues(r.pagesWithSEO, MetaIssues)
    \o [k \in 1..Len(r.pagesWithoutSEO) |->
          Attr(r.pagesWithoutSEO[k].pageName,
               <<Issue("No SEO implementation", NoLength, <<>>)>>)]

\* line 884
robotsMissing(r) ==
    IF r.robotsConfig = Null THEN TRUE ELSE ~r.robotsConfig.configured

\* lines 865-892
technicalSEOScore(r) ==
    LET NoCanonical(page) == ~page.metaTags.canonical
        pagesWithoutCanonical == Len(SelectSeq(r.pagesWithSEO, NoCanonical))
        HeadingIssueCount(page) == Len(page.headings.issues)
        techScore ==
            Pts(20) - Pts(1) * pagesWithoutCanonical
                    - SumOver(r.pagesWithSEO, HeadingIssueCount)
                    - (IF robotsMissing(r) THEN Pts(3) ELSE 0)
                    - (IF Len(r.missingFromSitemap) > 0
                       THEN Min(Pts(3), Len(r.missingFromSitemap)) ELSE 0)
    IN  Max(0, techScore)

technicalSEOIssues(r) ==
    LET HeadingIssues(page) == page.headings.issues IN
    PageIssues(r.pagesWithSEO, HeadingIssues)
    \o (IF robotsMissing(r)
        THEN <<Attr(0, <<Issue("No robots configuration", NoLength, <<>>)>>)>>
        ELSE <<>>)
    \o (IF Len(r.missingFromSitemap) > 0
        THEN <<Attr(0, <<Issue("pages missing from sitemap",
                               Len(r.missingFromSitemap), <<>>)>>)>>
        ELSE <<>>)

\* s.includes('Product') || s.includes('FAQ') || s.includes('LocalBusiness')
IsRichSchema(s) == s.type \in {"Product", "FAQPage", "LocalBusiness"}

\* Mutant of lines 896-903: the pages without SEO are counted as well
structuredDataScore_allPages(r) ==
    LET totalPages == Len(r.pagesWithSEO) + Len(r.pagesWithoutSEO)
        all == r.pagesWithSEO \o r.pagesWithoutSEO
        HasSchemas(page) == Len(page.schemas) > 0
        pagesWithSchemas == Len(SelectSeq(all, HasSchemas))
        schemaScore == Round20(pagesWithSchemas, totalPages)
        HasRich(page) == \E k \in 1..Len(page.schemas) : IsRichSchema(page.schemas[k])
        hasRichSchemas == \E k \in 1..Len(all) : HasRich(all[k])
    IN  Pts(IF hasRichSchemas THEN Min(20, schemaScore + 2) ELSE schemaScore)

\* lines 894-905
structuredDataScore(r) ==
    LET totalPages == Len(r.pagesWithSEO) + Len(r.pagesWithoutSEO)
        HasSchemas(page) == Len(page.schemas) > 0
        pagesWithSchemas == Len(SelectSeq(r.pagesWithSEO, HasSchemas))
        schemaScore == Round20(pagesWithSchemas, totalPages)
        HasRich(page) == \E k \in 1..Len(page.schemas) : IsRichSchema(page.schemas[k])
        hasRichSchemas == \E k \in 1..Len(r.pagesWithSEO) : HasRich(r.pagesWithSEO[k])
    IN  Pts(IF hasRichSchemas THEN Min(20, schemaScore + 2) ELSE schemaScore)

\* lines 907-928
imagesTotal(r) ==
    LET Total(page) == page.images.totalImages IN SumOver(r.pagesWithSEO, Total)

imagesWithoutAltTotal(r) ==
    LET Without(page) == page.images.imagesWithoutAlt IN
    SumOver(r.pagesWithSEO, Without)

\* Mutant of lines 925-926: the share of images WITHOUT alt text is scaled
imagesMediaScore_missingShare(r) ==
    LET totalImages == imagesTotal(r)
        imageScore == IF totalImages > 0
                      THEN Round20(imagesWithoutAltTotal(r), totalImages)
                      ELSE 20
    IN  Max(0, Pts(imageScore))

imagesMediaScore(r) ==
    LET totalImages == imagesTotal(r)
        imageScore == IF totalImages > 0
                      THEN Round20(totalImages - imagesWithoutAltTotal(r), totalImages)
                      ELSE 20
    IN  Max(0, Pts(imageScore))

imagesMediaIssues(r) ==
    LET ImageIssues(page) == page.images.issues IN
    PageIssues(r.pagesWithSEO, ImageIssues)

\* i.includes('Open Graph'), i.includes('Twitter')
IsOgIssue(i) == i.msg = "Missing Open Graph tags"

IsTwitterIssue(i) == i.msg = "Missing Twitter Card tags"

\* Mutant of lines 952-956: the ratio is not taken, the running total of
\* lines 931-944 (one point off per page with a social issue) is stored
socialSharingScore_subtractive(r) ==
    LET HasSocialIssue(page) ==
            \E k \in 1..Len(page.metaTags.issues) :
                IsOgIssue(page.metaTags.issues[k])
                \/ IsTwitterIssue(page.metaTags.issues[k])
    IN  Max(0, Pts(20) - Pts(1) * Len(SelectSeq(r.pagesWithSEO, HasSocialIssue)))

\* lines 930-957: the running total of lines 931-944 is overwritten by the
\* ratio of line 955 (totalPages > 0 always holds here)
socialSharingScore(r) ==
    LET totalPages == Len(r.pagesWithSEO) + Len(r.pagesWithoutSEO)
        HasOG(page) == Cardinality(page.metaTags.ogTags) >= 4
        HasTwitter(page) == Cardinality(page.metaTags.twitterTags) >= 4
        pagesWithOG == Len(SelectSeq(r.pagesWithSEO, HasOG))
        pagesWithTwitter == Len(SelectSeq(r.pagesWithSEO, HasTwitter))
        \* ((pagesWithOG / totalPages + pagesWithTwitter / totalPages) / 2) * 20
        socialScore == Round20(pagesWithOG + pagesWithTwitter, 2 * totalPages)
    IN  Max(0, Pts(socialScore))

RECURSIVE socialSharingIssues(_)
socialSharingIssues(pages) ==
    IF pages = <<>> THEN <<>>
    ELSE LET page == Head(pages)
             ogIssues == SelectSeq(page.metaTags.issues, IsOgIssue)
             twitterIssues == SelectSeq(page.metaTags.issues, IsTwitterIssue)
         IN  (IF Len(ogIssues) > 0 \/ Len(twitterIssues) > 0
              THEN <<Attr(page.pageName, ogIssues \o twitterIssues)>> ELSE <<>>)
             \o socialSharingIssues(Tail(pages))

calculateCategoryScores(r) ==
    IF Len(r.pagesWithSEO) + Len(r.pagesWithoutSEO) = 0 THEN r
    ELSE [r EXCEPT
            !.categoryScores["metaTags"].score = metaTagsScore(r),
            !.categoryScores["metaTags"].issues = @ \o metaTagsIssues(r),
            !.categoryScores["technicalSEO"].score = technicalSEOScore(r),
            !.categoryScores["technicalSEO"].issues = @ \o technicalSEOIssues(r),
            !.categoryScores["structuredData"].score = structuredDataScore(r),
            !.categoryScores["imagesMedia"].score = imagesMediaScore(r),
            !.categoryScores["imagesMedia"].issues = @ \o imagesMediaIssues(r),
            !.categoryScores["socialSharing"].score = socialSharingScore(r),
            !.categoryScores["socialSharing"].issues =
                @ \o socialSharingIssues(r.pagesWithSEO),
            !.imageStats.totalImages = imagesTotal(r),
            !.imageStats.imagesWithAlt = imagesTotal(r) - imagesWithoutAltTotal(r)]

\* lines 983-985: Math.round((totalScore / maxScore) * 100)
overallPercentage(r) ==
    LET cats == <<"metaTags", "technicalSEO", "structuredData", "imagesMedia",
                  "socialSharing">>
        totalScore == SeqSum([k \in 1..5 |-> r.categoryScores[cats[k]].score])
        maxScore == SeqSum([k \in 1..5 |-> r.categoryScores[cats[k]].maxScore])
    IN  (200 * totalScore + maxScore) \div (2 * maxScore)

-----------------------------------------------------------------------------
(* The run: main, lines 1399-1449 *)

\* Inputs read after aggregation: the sitemap file (none found, unreadable,
\* or listing all / none of the pages), the nuxt config (none found,
\* unreadable, robots configured or not) and the CI environment flag
Env(sitemap, robots, ci) ==
    [sitemap |-> sitemap, robots |-> robots, ci |-> ci, pagesDir |-> TRUE]

\* lines 34-38 and 75-82: none of app/pages, pages, src/pages exists, so
\* config.pagesDir stays null
WithoutPagesDir(e) == [e EXCEPT !.pagesDir = FALSE]

Envs ==
    {Env(s, r, ci) : s \in {"absent", "unreadable", "all", "none"},
                     r \in {"absent", "unreadable", "configured", "unconfigured"},
                     ci \in BOOLEAN}

\* An entry of results.errors: a page file, the sitemap or the nuxt config
ErrorEntry(kind, i) == [kind |-> kind, file |-> i]

\* Mutant of line 1417: the promises are not awaited, the loop starts as
\* soon as every checkPageSEO has been called
AllSettled_notAwaited == next > Len(docs)

AllSettled == next > Len(docs) /\ microtasks = <<>>

\* Mutant of lines 683-688: the test of hasGenerateSEO left out
shouldEvaluate_anyMatch(content) == extractGenerateSEOParams(content) # Null

\* lines 683-688: evaluateGenerateSEO is called iff the text holds
\* generateSEO( and the call pattern matched
shouldEvaluate(content) ==
    content.hasGenerateSEO /\ extractGenerateSEOParams(content) # Null

\* checkPageSEO(vueFiles[next]) up to its first suspension: lines 658-689
\* (and, when nothing is awaited, all the way to its return)
CheckPageSEO ==
    /\ phase = "analyse" /\ env.pagesDir
    /\ next <= Len(docs)
    /\ \E now \in ClockReadings :
       LET i == next
           content == docs[i]
           extractedParams == extractGenerateSEOParams(content)
           o == evaluateGenerateSEO(extractedParams, seoUtil, hostJSON, now)
       IN  IF ~content.readable
           THEN /\ results' = [results EXCEPT
                                 !.errors = Append(@, ErrorEntry("file", i))]
                /\ pageResults' = [pageResults EXCEPT ![i] = Null]
                /\ pc' = [pc EXCEPT ![i] = "done"]
                /\ UNCHANGED <<frame, microtasks, hostJSON, notes, evalCalls, phase>>
           ELSE IF content.ignored
           THEN /\ pageResults' = [pageResults EXCEPT ![i] = Null]
                /\ pc' = [pc EXCEPT ![i] = "done"]
                /\ UNCHANGED <<results, frame, microtasks, hostJSON, notes,
                               evalCalls, phase>>
           ELSE IF shouldEvaluate(content)
           THEN /\ hostJSON' = o.hostJSON
                /\ notes' = notes + o.note
                /\ evalCalls' = [evalCalls EXCEPT ![i] = @ + 1]
                /\ frame' = [frame EXCEPT ![i] = o]
                /\ IF o.how = "hung"
                   THEN /\ phase' = "hung"
                        /\ pc' = [pc EXCEPT ![i] = "running"]
                        /\ UNCHANGED microtasks
                   ELSE /\ pc' = [pc EXCEPT ![i] = "awaiting"]
                        /\ microtasks' = Append(microtasks, i)
                        /\ UNCHANGED phase
                /\ UNCHANGED <<results, pageResults>>
           ELSE /\ pageResults' = [pageResults EXCEPT
                                     ![i] = pageRecord(i, content, Null, Null, hostJSON)]
                /\ pc' = [pc EXCEPT ![i] = "done"]
                /\ UNCHANGED <<results, frame, microtasks, hostJSON, notes,
                               evalCalls, phase>>
    /\ next' = next + 1
    /\ UNCHANGED <<docs, seoUtil, agg, env, exitCode, report>>

\* The continuation of a suspended checkPageSEO, lines 689-762: the awaited
\* promise has settled; a rejection, or a TypeError of checkMetaTags, lands
\* in the catch block of line 759
ResumePageSEO ==
    /\ phase = "analyse" /\ env.pagesDir
    /\ next > Len(docs)
    /\ microtasks # <<>>
    /\ LET i == Head(microtasks)
           o == frame[i]
           record == IF o.how = "rejected" THEN Null
                     ELSE pageRecord(i, docs[i], o.params, o.value, hostJSON)
       IN  /\ pageResults' = [pageResults EXCEPT ![i] = record]
           /\ results' = IF record = Null
                         THEN [results EXCEPT
                                 !.errors = Append(@, ErrorEntry("file", i))]
                         ELSE results
           /\ pc' = [pc EXCEPT ![i] = "done"]
    /\ microtasks' = Tail(microtasks)
    /\ UNCHANGED <<docs, seoUtil, next, frame, hostJSON, notes, evalCalls, agg,
                   phase, env, exitCode, report>>

\* One iteration of pageResults.forEach, lines 1419-1439, once Promise.all
\* has resolved
Aggregate ==
    /\ phase = "analyse" /\ env.pagesDir
    /\ AllSettled
    /\ agg <= Len(docs)
    /\ results' = aggregate(results, pageResults[agg])
    /\ agg' = agg + 1
    /\ UNCHANGED <<docs, seoUtil, next, pc, frame, microtasks, pageResults,
                   hostJSON, notes, evalCalls, phase, env, exitCode, report>>

\* checkSitemap, lines 768-789
checkSitemap(r, sitemap) ==
    CASE sitemap = "absent" ->
           [r EXCEPT !.warnings = Append(@, "Sitemap file not found")]
      [] sitemap = "unreadable" ->
           [r EXCEPT !.errors = Append(@, ErrorEntry("sitemap", 0))]
      [] sitemap = "all" ->
           [r EXCEPT !.sitemapPages = {PageName(i) : i \in 1..Len(docs)}]
      [] sitemap = "none" -> [r EXCEPT !.sitemapPages = {}]

CheckSitemap ==
    /\ phase = "analyse" /\ env.pagesDir
    /\ AllSettled
    /\ agg > Len(docs)
    /\ results' = checkSitemap(results, env.sitemap)
    /\ phase' = "robots"
    /\ UNCHANGED <<docs, seoUtil, next, pc, frame, microtasks, pageResults,
                   hostJSON, notes, evalCalls, agg, env, exitCode, report>>

\* checkRobotsConfig, lines 794-840
checkRobotsConfig(r, robots) ==
    CASE robots = "absent" -> r
      [] robots = "unreadable" ->
           [r EXCEPT !.errors = Append(@, ErrorEntry("config", 0))]
      [] robots = "configured" -> [r EXCEPT !.robotsConfig = [configured |-> TRUE]]
      [] robots = "unconfigured" ->
           [r EXCEPT !.robotsConfig = [configured |-> FALSE]]

CheckRobotsConfig ==
    /\ phase = "robots"
    /\ results' = checkRobotsConfig(results, env.robots)
    /\ phase' = "report"
    /\ UNCHANGED <<docs, seoUtil, next, pc, frame, microtasks, pageResults,
                   hostJSON, notes, evalCalls, agg, env, exitCode, report>>

\* An entry of quickFixes: its fixed text, the number it quotes and the
\* impact it quotes, in half points (0: none quoted)
QuickFix(fix, amount, impact) == [fix |-> fix, amount |-> amount, impact |-> impact]

\* `value > 0` for an array value: the array is converted to a number
\* through its string, [] to 0, [n] to n, a longer one to NaN
ArrayAboveZero(value) == Len(value) = 1 /\ value[1] > 0

\* line 1364: issue.includes('too short') || issue.includes('too long')
lengthIssue(entry) ==
    entry.issues[1].msg \in {"Title too short", "Title too long",
                             "Meta description too short",
                             "Meta description too long"}

\* lines 1352-1373: the quick fixes, in the order of the checks
quickFixes(r) ==
    LET social == r.categoryScores["socialSharing"].score
        stats == r.imageStats
        metaIssues == r.categoryScores["metaTags"].issues
        fixes ==
            (IF social < Pts(10)
             THEN <<QuickFix("Add Open Graph tags to all pages", 0,
                             Pts(20) - social)>>
             ELSE <<>>)
            \o (IF stats.totalImages > 0 /\ ArrayAboveZero(stats.imagesWithoutAlt)
                THEN <<QuickFix("Add alt text to images",
                                stats.imagesWithoutAlt[1],
                                Pts(Round20(stats.imagesWithoutAlt[1],
                                            stats.totalImages)))>>
                ELSE <<>>)
            \o (IF \E k \in 1..Len(metaIssues) : lengthIssue(metaIssues[k])
                THEN <<QuickFix("Optimize title and description lengths", 0, 0)>>
                ELSE <<>>)
            \o (IF Len(r.pagesWithoutSEO) > 0
                THEN <<QuickFix("Add SEO to pages", Len(r.pagesWithoutSEO),
                                Pts(2) * Len(r.pagesWithoutSEO))>>
                ELSE <<>>)
    IN  IF fixes = <<>>
        THEN <<QuickFix("SEO implementation is well optimized!", 0, 0)>>
        ELSE fixes

\* Mutant of lines 1390-1393: the CI flag is not looked at
exitStatus_anyEnvironment(percentage, ci) == IF percentage < 50 THEN 1 ELSE 0

\* lines 1390-1393: process.exit(1) below 50 percent under CI; otherwise
\* the process ends by itself, with status 0
exitStatus(percentage, ci) == IF percentage < 50 /\ ci THEN 1 ELSE 0

\* main, lines 1403-1408: no pages directory was detected
ExitWithoutPagesDir ==
    /\ phase = "analyse" /\ ~env.pagesDir
    /\ exitCode' = 1
    /\ phase' = "exited"
    /\ UNCHANGED <<docs, seoUtil, next, pc, frame, microtasks, pageResults,
                   results, hostJSON, notes, evalCalls, agg, env, report>>

\* generateReport, lines 967-1394: the scores, the overall percentage, the
\* quick fixes (computed, and the first three printed, when there are pages)
\* and the exit code of lines 1390-1393
GenerateReport ==
    /\ phase = "report"
    /\ LET scored == calculateCategoryScores(results)
           percentage == overallPercentage(scored)
           totalPages == Len(scored.pagesWithSEO) + Len(scored.pagesWithoutSEO)
           fixes == IF totalPages > 0 THEN quickFixes(scored) ELSE <<>>
       IN  /\ results' = scored
           /\ report' = [overallPercentage |-> percentage,
                         quickFixes |-> fixes,
                         printedFixes |-> SubSeq(fixes, 1, Min(3, Len(fixes)))]
           /\ exitCode' = exitStatus(percentage, env.ci)
    /\ phase' = "done"
    /\ UNCHANGED <<docs, seoUtil, next, pc, frame, microtasks, pageResults,
                   hostJSON, notes, evalCalls, agg, env>>

Next ==
    \/ CheckPageSEO
    \/ ResumePageSEO
    \/ Aggregate
    \/ CheckSitemap
    \/ CheckRobotsConfig
    \/ GenerateReport
    \/ ExitWithoutPagesDir

-----------------------------------------------------------------------------
(* The page documents and project files the runs are checked on *)

\* All lists of at most n members of S
SeqsUpTo(S, n) == UNION {[1..k -> S] : k \in 0..n}

\* The argument texts of the calls: title and description lengths, image
Calls ==
    {Call(38, 218, Undefined), Call(38, 218, "a.png"), Call(29, 130, "b.png")}

\* Pages without the text generateSEO(: each combination of the other two
\* calls, with an image parameter in the text
NoCallPages ==
    {[PlainDoc EXCEPT !.hasUseSeoMeta = m, !.hasUseHead = h,
                      !.textImage = "a.png"] : m, h \in BOOLEAN}

\* Pages with the text generateSEO(: with and without useHead(, the call
\* matched by the pattern of line 152 or not
CallPages ==
    {WithCall([PlainDoc EXCEPT !.hasUseHead = h], c) : h \in BOOLEAN, c \in Calls}
    \cup {[PlainDoc EXCEPT !.hasGenerateSEO = TRUE, !.hasUseHead = h] :
            h \in BOOLEAN}

\* A page that writes the call as `generateSEO ({...})`: the pattern of
\* line 152 matches it, the substring test of line 674 does not
SpacedCallPage == [PlainDoc EXCEPT !.call = Call(38, 218, "a.png")]

Pages ==
    NoCallPages \cup CallPages
    \cup {SpacedCallPage,
          [PlainDoc EXCEPT !.readable = FALSE], [PlainDoc EXCEPT !.ignored = TRUE]}

\* The state main() starts from, for the page list d, utility file u, and
\* environment e
Start(d, u, e) ==
    /\ docs = d
    /\ seoUtil = u
    /\ env = e
    /\ next = 1
    /\ pc = [i \in 1..Len(d) |-> "todo"]
    /\ frame = [i \in 1..Len(d) |-> Null]
    /\ microtasks = <<>>
    /\ pageResults = [i \in 1..Len(d) |-> Null]
    /\ results = InitialResults
    /\ hostJSON = "native"
    /\ notes = 0
    /\ evalCalls = [i \in 1..Len(d) |-> 0]
    /\ agg = 1
    /\ phase = "analyse"
    /\ exitCode = -1
    /\ report = Null

Init ==
    \E d \in SeqsUpTo(Pages, MaxDocs), u \in UtilFiles :
        \/ Start(d, u, Env("all", "configured", FALSE))
        \/ d = <<>> /\ Start(d, u, WithoutPagesDir(Env("absent", "absent", FALSE)))

Spec == Init /\ [][Next]_vars

\* Runs that exercise checkMetaTags and mapParamsToSchemas: pages whose
\* title and description lengths lie on and around the band limits, and
\* pages whose calls hold collection parameters
SampleTitle == 38

SampleDescription == 130

LongDescription == 218

BandCalls ==
    {Call(t, SampleDescription, "a.png") :
        t \in {TitleMin - 1, TitleMin, SampleTitle, TitleMax, TitleMax + 1}}
    \cup {Call(SampleTitle, d, "a.png") :
            d \in {DescriptionMin - 1, DescriptionMin, DescriptionMax,
                   DescriptionMax + 1, LongDescription}}

\* With the call matched (the sandbox is tried) and, for the static path,
\* with generateSEO( in the text but the call pattern unmatched
BandPages ==
    {WithCall([PlainDoc EXCEPT !.hasUseHead = TRUE], c) : c \in BandCalls}
    \cup {[PlainDoc EXCEPT !.hasGenerateSEO = TRUE, !.hasUseHead = TRUE,
                           !.textTitle = c.title,
                           !.textDescription = c.description] : c \in BandCalls}

WithArrays(c, faqs, products, services) ==
    [c EXCEPT !.arrays["faqs"] = faqs, !.arrays["products"] = products,
              !.arrays["services"] = services]

SampleCount == 5

ParamCalls ==
    {WithArrays(Call(SampleTitle, SampleDescription, Undefined), f, p, s) :
        f \in {NoArray, ArrayText(2)},
        p \in {NoArray, ArrayText(SampleCount), ArrayText(0)},
        s \in {NoArray, [content |-> "blank", braces |-> 0]}}
    \cup {[Call(SampleTitle, SampleDescription, Undefined)
             EXCEPT !.arrays["branches"] = ArrayText(1),
                    !.arrays["news"] = ArrayText(3),
                    !.objects = {"grant", "awards"}]}

ParamPages == {WithCall([PlainDoc EXCEPT !.hasUseHead = TRUE], c) : c \in ParamCalls}

InitMeta ==
    \E d \in SeqsUpTo(BandPages, MaxDocs) \cup SeqsUpTo(ParamPages, MaxDocs),
       u \in {"absent", "conforming", "throwsError"} :
        \/ Start(d, u, Env("all", "configured", FALSE))
        \/ d = <<>> /\ Start(d, u, WithoutPagesDir(Env("absent", "absent", FALSE)))

SpecMeta == InitMeta /\ [][Next]_vars

\* Runs that exercise the type list of lines 691-737: pages whose calls hold
\* collection parameters, against entry points whose payload parses, does
\* not parse, or holds no graph
InitGraph ==
    \E d \in SeqsUpTo(ParamPages, MaxDocs),
       u \in {"conforming", "badJsonLd", "patchesJSON"} \cup GraphEntryPoints :
        \/ Start(d, u, Env("all", "configured", FALSE))
        \/ d = <<>> /\ Start(d, u, WithoutPagesDir(Env("absent", "absent", FALSE)))

SpecGraph == InitGraph /\ [][Next]_vars

\* Runs that exercise the static path of checkMetaTags: pages with
\* useSeoMeta( and useHead( whose text holds none of the tag literals, the
\* prefixed ones, the camel-case ones or a mix, with and without
\* `canonical:`, and pages with generateSEO(
PrefixedLiterals ==
    [og |-> {"og:title", "og:description", "og:image", "og:url"},
     twitter |-> {"twitter:card", "twitter:title", "twitter:description",
                  "twitter:image"}]

CamelCaseLiterals ==
    [og |-> {"ogTitle", "ogDescription", "ogImage", "ogUrl"},
     twitter |-> {"twitterCard", "twitterTitle", "twitterDescription",
                  "twitterImage"}]

LiteralSets ==
    {[og |-> {}, twitter |-> {}], PrefixedLiterals, CamelCaseLiterals,
     [og |-> {"og:title", "ogDescription", "og:image"},
      twitter |-> {"twitter:card", "twitterTitle"}]}

StaticPages ==
    {[PlainDoc EXCEPT !.hasUseSeoMeta = TRUE, !.hasUseHead = TRUE,
                      !.textTitle = SampleTitle,
                      !.textDescription = SampleDescription,
                      !.ogLiterals = l.og, !.twitterLiterals = l.twitter,
                      !.canonicalText = c] : l \in LiteralSets, c \in BOOLEAN}
    \cup {WithCall([PlainDoc EXCEPT !.hasUseHead = TRUE],
                   Call(SampleTitle, SampleDescription, "a.png")),
          [PlainDoc EXCEPT !.hasGenerateSEO = TRUE, !.hasUseHead = TRUE]}

InitStatic ==
    \E d \in SeqsUpTo(StaticPages, MaxDocs),
       u \in {"absent", "noMeta", "conforming"} :
        \/ Start(d, u, Env("all", "configured", FALSE))
        \/ d = <<>> /\ Start(d, u, WithoutPagesDir(Env("absent", "absent", FALSE)))

SpecStatic == InitStatic /\ [][Next]_vars

\* Runs that exercise calculateCategoryScores: a few pages that differ in
\* what the categories count, followed by plain pages without any SEO call
Markup(d, headings, imgs) ==
    [d EXCEPT !.template = TRUE, !.headings = headings, !.imgs = imgs]

ScorePages ==
    {\* generateSEO + useHead, broken heading hierarchy, one image lacks alt
     Markup(WithCall([PlainDoc EXCEPT !.hasUseHead = TRUE],
                     Call(SampleTitle, LongDescription, "a.png")),
            <<1, 3>>, <<Img(TRUE, FALSE), Img(FALSE, FALSE)>>),
     \* generateSEO + useHead with a products parameter
     WithCall([PlainDoc EXCEPT !.hasUseHead = TRUE],
              WithArrays(Call(SampleTitle, SampleDescription, "a.png"),
                         NoArray, ArrayText(SampleCount), NoArray)),
     \* useSeoMeta + useHead with prefixed tags and a canonical link
     [PlainDoc EXCEPT !.hasUseSeoMeta = TRUE, !.hasUseHead = TRUE,
                      !.textTitle = SampleTitle,
                      !.textDescription = SampleDescription,
                      !.ogLiterals = {"og:title", "og:description", "og:image",
                                      "og:url"},
                      !.twitterLiterals = {"twitter:card", "twitter:title",
                                           "twitter:description", "twitter:image"},
                      !.canonicalText = TRUE],
     \* useSeoMeta + useHead and nothing else: no headings, three bare images
     Markup([PlainDoc EXCEPT !.hasUseSeoMeta = TRUE, !.hasUseHead = TRUE],
            <<2, 2>>, <<Img(FALSE, FALSE), Img(FALSE, FALSE), Img(FALSE, FALSE)>>),
     \* generateSEO without useHead
     WithCall(PlainDoc, Call(SampleTitle, SampleDescription, "b.png"))}

ScoreEnvs ==
    {Env(s, r, ci) : s \in {"absent", "all", "none"},
                     r \in {"absent", "configured", "unconfigured"},
                     ci \in BOOLEAN}

InitScore ==
    \E d \in SeqsUpTo(ScorePages, MaxDocs), n \in 0..MaxPlain,
       u \in {"absent", "conforming"}, e \in ScoreEnvs :
        /\ d = <<>> \/ n \in {0, 1, MaxPlain}
        /\ \/ Start(d \o Repeat(PlainDoc, n), u, e)
           \/ d = <<>> /\ n = 0 /\ Start(d, u, WithoutPagesDir(e))

SpecScore == InitScore /\ [][Next]_vars

\* Runs that exercise checkHeadingStructure: a page whose markup holds any
\* list of up to MaxHeadings heading tags of the levels 1..6, alone or after
\* a page whose call is evaluated
MaxHeadings == 3

HeadingLevels == 1..6

HeadingPages ==
    {Markup(PlainDoc, h, <<>>) : h \in SeqsUpTo(HeadingLevels, MaxHeadings)}

InitHeadings ==
    \/ \E page \in HeadingPages :
          \/ Start(<<page>>, "conforming", Env("all", "configured", FALSE))
          \/ Start(<<WithCall([PlainDoc EXCEPT !.hasUseHead = TRUE],
                              Call(SampleTitle, SampleDescription, "a.png")),
                     page>>, "conforming", Env("all", "configured", FALSE))
    \/ Start(<<>>, "conforming", WithoutPagesDir(Env("absent", "absent", FALSE)))

SpecHeadings == InitHeadings /\ [][Next]_vars

-----------------------------------------------------------------------------
(* Properties *)

\* Page i was analysed to the end and yielded a record
HasRecord(i) == pc[i] = "done" /\ pageResults[i] # Null

Analysed == {i \in 1..Len(docs) : HasRecord(i)}

\* The names listed under an image of the ImageUsageIndex, anywhere
Indexed == UNION {Range(results.ogImageUsage[image]) : image \in Images}

\* C1: every record checkPageSEO returns has hasSEO = TRUE exactly when the
\* text holds useHead( together with generateSEO( or useSeoMeta(; in the
\* five other combinations of the three flags it is FALSE.
C1_HasSEOIffDeclarationAndHead ==
    \A i \in Analysed :
        pageResults[i].hasSEO <=>
            <<docs[i].hasGenerateSEO, docs[i].hasUseSeoMeta, docs[i].hasUseHead>>
            \in {<<TRUE, FALSE, TRUE>>, <<FALSE, TRUE, TRUE>>, <<TRUE, TRUE, TRUE>>}

\* C1 witness: a record covered through useSeoMeta( alone, next to one that
\* has generateSEO( but no useHead( and is not covered
C1_Witness ==
    \E i, j \in Analysed :
        /\ pageResults[i].hasSEO
        /\ docs[i].hasUseSeoMeta /\ ~docs[i].hasGenerateSEO
        /\ ~pageResults[j].hasSEO
        /\ docs[j].hasGenerateSEO /\ ~docs[j].hasUseHead

\* C2 as stated: no record with hasSEO = FALSE carries metadata fields that
\* were derived from the sandbox's output.
C2_UncoveredNeverDynamic ==
    \A i \in Analysed : ~pageResults[i].hasSEO => ~pageResults[i].metaTags.dynamic

\* C2 amended: a record carries metadata derived from the sandbox's output
\* exactly when its text holds generateSEO(, the call pattern matched and
\* the evaluation returned an object with a meta list -- whatever hasSEO is;
\* so a record with hasSEO = FALSE carries it only for a page that calls
\* generateSEO({...}) without useHead(.
C2_DynamicIffCallEvaluated ==
    \A i \in Analysed :
        /\ pageResults[i].metaTags.dynamic <=>
              /\ docs[i].hasGenerateSEO
              /\ docs[i].call # Null
              /\ frame[i].how = "returned"
              /\ frame[i].value # Null
              /\ frame[i].value.metaKind = "list"
        /\ (pageResults[i].metaTags.dynamic /\ ~pageResults[i].hasSEO)
              => (docs[i].hasGenerateSEO /\ ~docs[i].hasUseHead)

\* C2 witness: an uncovered record whose metadata came from the sandbox
C2_Witness ==
    \E i \in Analysed :
        /\ ~pageResults[i].hasSEO
        /\ pageResults[i].metaTags.dynamic
        /\ pageResults[i].metaTags.title = 38

Categories ==
    {"metaTags", "technicalSEO", "structuredData", "imagesMedia", "socialSharing"}

\* C3: in every state, before and after calculateCategoryScores, each of the
\* five category scores lies between 0 and its maximum, every maximum is 20
\* points and the maxima sum to 100 points.
C3_ScoresWithinMaxima ==
    /\ \A c \in Categories :
         /\ results.categoryScores[c].maxScore = 2 * 20
         /\ 0 <= results.categoryScores[c].score
         /\ results.categoryScores[c].score <= results.categoryScores[c].maxScore
    /\ LET cats == <<"metaTags", "technicalSEO", "structuredData", "imagesMedia",
                      "socialSharing">>
       IN  SeqSum([k \in 1..5 |-> results.categoryScores[cats[k]].maxScore])
              = 2 * 100
    /\ DOMAIN results.categoryScores = Categories

\* C3 witness: scored runs in which the floor is what keeps the metadata
\* score at 0 (more than ten pages without SEO) while another category is
\* at its maximum
C3_Witness ==
    /\ phase = "done"
    /\ Len(results.pagesWithoutSEO) > 10
    /\ Len(results.pagesWithSEO) > 0
    /\ results.categoryScores["metaTags"].score = 0
    /\ results.categoryScores["imagesMedia"].score = 2 * 20

LacksAllCalls(content) ==
    ~content.hasGenerateSEO /\ ~content.hasUseSeoMeta /\ ~content.hasUseHead

\* C4: a page whose text holds neither a declaration call nor useHead( gets
\* hasSEO = FALSE, and its name is never listed under any image of the
\* ImageUsageIndex, also when its text holds an image parameter.
C4_UncoveredNeverIndexed ==
    \A i \in 1..Len(docs) :
        LacksAllCalls(docs[i]) =>
            /\ HasRecord(i) => ~pageResults[i].hasSEO
            /\ PageName(i) \notin Indexed

\* C4 witness: aggregation is over, a page without any call has an image
\* parameter in its text, and that very image is indexed for another page
C4_Witness ==
    /\ phase = "done"
    /\ \E i \in Analysed :
         /\ LacksAllCalls(docs[i])
         /\ docs[i].textImage = "a.png"
         /\ results.ogImageUsage["a.png"] # <<>>

\* The pages whose record carries the image reference `image`, in
\* discovery order
Carriers(image) ==
    LET Carries(i) == /\ HasRecord(i)
                      /\ pageResults[i].schemaDetails # Null
                      /\ pageResults[i].schemaDetails.image = image
    IN  SelectSeq([i \in 1..Len(docs) |-> i], Carries)

CoveredCarriers(image) ==
    LET Covered(i) == pageResults[i].hasSEO IN SelectSeq(Carriers(image), Covered)

NamesOf(pages) == [k \in 1..Len(pages) |-> PageName(pages[k])]

C6_AllUncoveredScores ==
    (phase = "done" /\ \A i \in 1..Len(docs) : LacksAllCalls(docs[i])) =>
        /\ results.pagesWithSEO = <<>>
        /\ results.categoryScores["metaTags"].score =
              IF 20 - 2 * Cardinality(Analysed) > 0
              THEN 2 * (20 - 2 * Cardinality(Analysed)) ELSE 0
        /\ results.categoryScores["structuredData"].score = 0

\* C6 amended, for every N >= 1: the same; with no page at all
\* calculateCategoryScores returns at once and every score stays 0.
C6_AllUncoveredScoresFromOne ==
    (phase = "done" /\ \A i \in 1..Len(docs) : LacksAllCalls(docs[i])) =>
        /\ results.pagesWithSEO = <<>>
        /\ results.categoryScores["structuredData"].score = 0
        /\ results.categoryScores["metaTags"].score =
              IF Cardinality(Analysed) = 0 THEN 0
              ELSE IF 20 - 2 * Cardinality(Analysed) > 0
              THEN 2 * (20 - 2 * Cardinality(Analysed)) ELSE 0

\* C6 witness: three uncovered pages scored 14 points
C6_Witness ==
    /\ phase = "done"
    /\ \A i \in 1..Len(docs) : LacksAllCalls(docs[i])
    /\ Cardinality(Analysed) = 3
    /\ results.categoryScores["metaTags"].score = 2 * 14

\* The issues of a record's metadata whose text is one of `msgs`
IssuesOf(i, msgs) ==
    LET Is(issue) == issue.msg \in msgs IN
    SelectSeq(pageResults[i].metaTags.issues, Is)

\* Exactly the issue `msg` is among the length issues `found` iff `wanted`
OneIssueIff(found, msg, wanted) ==
    LET Is(issue) == issue.msg = msg IN
    Len(SelectSeq(found, Is)) = (IF wanted THEN 1 ELSE 0)

NoSandboxOutput(i) ==
    evalCalls[i] > 0 /\ frame[i].how = "returned" /\ frame[i].value = Null

CollectionType(param) ==
    CASE param = "faqs" -> "FAQPage"
      [] param = "products" -> "Product"
      [] param = "services" -> "Service"
      [] param = "branches" -> "LocalBusiness"
      [] param = "news" -> "NewsArticle"

\* The entries of a record's type list that name the type of a collection
CollectionEntries(i, param) ==
    LET Is(schema) == schema.type = CollectionType(param) IN
    SelectSeq(pageResults[i].schemas, Is)

\* C8: without sandbox output, the type list of a record holds the type of
\* a collection iff the ParameterSet counts that collection above 0, once
\* and annotated with exactly that count.
C8_FallbackCollectionTypes ==
    \A i \in Analysed :
        NoSandboxOutput(i) =>
            \A param \in ArrayParams :
                CollectionEntries(i, param) =
                    IF pageResults[i].schemaDetails[param] > 0
                    THEN <<[type |-> CollectionType(param),
                            count |-> pageResults[i].schemaDetails[param]]>>
                    ELSE <<>>

\* C8 witness: products = 5 is the only collection of the ParameterSet, and
\* the fallback list holds Product (5) and no other collection type
C8_Witness ==
    \E i \in Analysed :
        /\ NoSandboxOutput(i)
        /\ pageResults[i].schemaDetails.products = 5
        /\ \A param \in ArrayParams \ {"products"} :
             /\ pageResults[i].schemaDetails[param] = 0
             /\ CollectionEntries(i, param) = <<>>
        /\ CollectionEntries(i, "products") = <<[type |-> "Product", count |-> 5]>>

Classification(i) ==
    IF frame[i].how # "returned" THEN "rejected"
    ELSE IF frame[i].value = Null THEN "unavailable" ELSE "available"

SpecLive == Init /\ [][Next]_vars /\ WF_vars(Next)

Throws(i) ==
    \/ ~docs[i].readable
    \/ /\ ~docs[i].ignored
       /\ evalCalls[i] > 0
       /\ \/ frame[i].how = "rejected"
          \/ /\ frame[i].how = "returned"
             /\ checkMetaTags(docs[i], frame[i].value).threw

\* The names of the records of a partition
PartitionNames(pages) == {pages[k].pageName : k \in 1..Len(pages)}

\* The entries of results.errors that name page i
PageErrors(i) ==
    LET Names(e) == e = ErrorEntry("file", i) IN SelectSeq(results.errors, Names)

\* C13: when the run is over, each page whose reading or analysis threw has
\* exactly one entry in results.errors and no record in either partition,
\* and every other page that is not ignored has its record in exactly one
\* partition, appears there once, and was counted by the scoring.
C13_FailureConfinedToPage ==
    phase = "done" =>
        /\ \A i \in 1..Len(docs) :
             IF Throws(i)
             THEN /\ Len(PageErrors(i)) = 1
                  /\ PageName(i) \notin PartitionNames(results.pagesWithSEO)
                  /\ PageName(i) \notin PartitionNames(results.pagesWithoutSEO)
             ELSE /\ PageErrors(i) = <<>>
                  /\ ~docs[i].ignored =>
                       /\ pageResults[i] # Null
                       /\ (PageName(i) \in PartitionNames(results.pagesWithSEO))
                            # (PageName(i) \in PartitionNames(results.pagesWithoutSEO))
        /\ Len(results.errors) = Cardinality({i \in 1..Len(docs) : Throws(i)})
        /\ Len(results.pagesWithSEO) + Len(results.pagesWithoutSEO)
              = Cardinality({i \in 1..Len(docs) : ~Throws(i) /\ ~docs[i].ignored})
        /\ Len(results.pagesWithSEO) + Len(results.pagesWithoutSEO) > 0 =>
              results.categoryScores["metaTags"].score = metaTagsScore(results)

\* C13 witness: the analysis of one page threw inside checkMetaTags after
\* the sandbox returned, another page was analysed after it, and the run
\* ended with one error entry and the other page's record scored
C13_Witness ==
    /\ phase = "done"
    /\ Len(docs) = 2
    /\ Throws(1) /\ docs[1].readable /\ frame[1].how = "returned"
    /\ ~Throws(2)
    /\ Len(results.errors) = 1
    /\ PartitionNames(results.pagesWithSEO) = {PageName(2)}
    /\ results.categoryScores["metaTags"].score > 0

\* C14: for a page that was read and is not ignored, and in whose text no
\* generateSEO({...}) call is matched, evaluateGenerateSEO is never invoked,
\* no error and no warning is recorded, and the page's record holds the
\* metadata checkMetaTags makes of the text alone.
C14_NoCallNoEvaluation ==
    \A i \in 1..Len(docs) :
        (docs[i].readable /\ ~docs[i].ignored /\ docs[i].call = Null) =>
            /\ evalCalls[i] = 0
            /\ frame[i] = Null
            /\ pc[i] \in {"todo", "done"}
            /\ PageErrors(i) = <<>>
            /\ results.warnings = <<>>
            /\ pc[i] = "done" =>
                 /\ pageResults[i] # Null
                 /\ ~pageResults[i].metaTags.dynamic
                 /\ pageResults[i].metaTags = checkMetaTagsStatic(docs[i])
                 /\ pageResults[i].schemaDetails = Null

\* C14 witness: the text holds generateSEO( but no call is matched, the page
\* got its record without any evaluation, while the sandbox was invoked for
\* another page of the same run
C14_Witness ==
    \E i, j \in Analysed :
        /\ docs[i].hasGenerateSEO /\ docs[i].call = Null
        /\ evalCalls[i] = 0
        /\ ~pageResults[i].metaTags.dynamic
        /\ evalCalls[j] = 1 /\ pageResults[j].metaTags.dynamic
        /\ notes = 0 /\ results.errors = <<>>

\* C15: evaluateGenerateSEO is invoked at most once for a page, and a page
\* for which it returned no output gets its metadata from the text alone
\* and its type list from mapParamsToSchemas of the extracted parameters.
C15_NoRetryStaticFallback ==
    \A i \in 1..Len(docs) :
        /\ evalCalls[i] <= 1
        /\ (NoSandboxOutput(i) /\ pc[i] = "done") =>
             /\ pageResults[i] # Null
             /\ ~pageResults[i].metaTags.dynamic
             /\ pageResults[i].metaTags = checkMetaTagsStatic(docs[i])
             /\ pageResults[i].schemas =
                   mapParamsToSchemas(extractGenerateSEOParams(docs[i]))
             /\ pageResults[i].schemaDetails = extractGenerateSEOParams(docs[i])

\* C15 witness: the entry point threw, the note was logged once, and the
\* page's record shows the title of its text and the two base types
C15_Witness ==
    \E i \in Analysed :
        /\ seoUtil = "throwsError"
        /\ NoSandboxOutput(i) /\ evalCalls[i] = 1
        /\ notes >= 1
        /\ pageResults[i].metaTags.title = 38
        /\ pageResults[i].schemas = <<Schema("WebPage", 0), Schema("Organization", 0)>>

\* The collections the aggregation fills
Aggregated ==
    <<results.pagesWithSEO, results.pagesWithoutSEO, results.ogImageUsage,
      results.pagesWithoutOGImage>>

\* C16: a step changes pagesWithSEO, pagesWithoutSEO, ogImageUsage or
\* pagesWithoutOGImage only if it is an iteration of the aggregation loop,
\* taken when every checkPageSEO has been called and has completed; the
\* steps of checkPageSEO leave the four unchanged.
C16_OnlyAggregationMutates ==
    [][/\ Aggregated' # Aggregated =>
            /\ agg' = agg + 1
            /\ next > Len(docs) /\ microtasks = <<>>
            /\ \A i \in 1..Len(docs) : pc[i] = "done"
            /\ UNCHANGED <<pc, pageResults, next, microtasks>>
       /\ (pc' # pc \/ pageResults' # pageResults) =>
            /\ Aggregated' = Aggregated
            /\ agg = 1
            /\ Aggregated = <<<<>>, <<>>, [image \in Images |-> <<>>], <<>>>>]_vars

\* C16 witness: two analyses were suspended at the sandbox and resumed, and
\* the loop has since put the first record into a partition and the index
C16_Witness ==
    /\ Len(docs) = 2
    /\ evalCalls = <<1, 1>>
    /\ pc = <<"done", "done">>
    /\ agg = 2
    /\ Len(results.pagesWithSEO) = 1
    /\ results.ogImageUsage["a.png"] = <<PageName(1)>>

\* How often the name of page i is listed in a list of names
Listed(names, i) ==
    LET Is(n) == n = PageName(i) IN Len(SelectSeq(names, Is))

\* The image reference the record of page i carries (Undefined: none)
ImageOf(i) ==
    IF pageResults[i].schemaDetails = Null THEN Undefined
    ELSE pageResults[i].schemaDetails.image

\* How often page i is listed in the ImageUsageIndex under other images
ListedElsewhere(i) ==
    \E image \in Images \ {ImageOf(i)} : Listed(results.ogImageUsage[image], i) > 0

\* C17 as stated: after aggregation every covered record is listed exactly
\* once, under its image if it carries one and in pagesWithoutOGImage if it
\* carries none.
C17_CoveredIndexedOrMissing ==
    phase = "done" =>
        \A i \in Analysed :
            pageResults[i].hasSEO =>
                IF ImageOf(i) # Undefined
                THEN /\ Listed(results.ogImageUsage[ImageOf(i)], i) = 1
                     /\ ~ListedElsewhere(i)
                     /\ Listed(results.pagesWithoutOGImage, i) = 0
                ELSE /\ Listed(results.pagesWithoutOGImage, i) = 1
                     /\ ~ListedElsewhere(i)

\* C17 amended: after aggregation a covered record that carries an image
\* is listed once under that image and nowhere else; a covered record that
\* carries none is listed once in pagesWithoutOGImage if its text holds
\* generateSEO(, and is listed nowhere if it does not (useSeoMeta( with
\* useHead( only).
C17_MissingOnlyWithGenerateSEO ==
    phase = "done" =>
        \A i \in Analysed :
            pageResults[i].hasSEO =>
                IF ImageOf(i) # Undefined
                THEN /\ Listed(results.ogImageUsage[ImageOf(i)], i) = 1
                     /\ ~ListedElsewhere(i)
                     /\ Listed(results.pagesWithoutOGImage, i) = 0
                ELSE /\ Listed(results.pagesWithoutOGImage, i) =
                           (IF docs[i].hasGenerateSEO THEN 1 ELSE 0)
                     /\ ~ListedElsewhere(i)

\* C17 witness: of two covered pages without an image, the one calling
\* generateSEO( is listed as missing an image, the one using useSeoMeta(
\* is not listed at all
C17_Witness ==
    /\ phase = "done"
    /\ \E i, j \in Analysed :
         /\ pageResults[i].hasSEO /\ pageResults[j].hasSEO
         /\ ImageOf(i) = Undefined /\ ImageOf(j) = Undefined
         /\ docs[i].hasGenerateSEO /\ docs[i].call # Null
         /\ ~docs[j].hasGenerateSEO /\ docs[j].hasUseSeoMeta
         /\ results.pagesWithoutOGImage = <<PageName(i)>>

\* The pages with a covered record
Covered == {i \in Analysed : pageResults[i].hasSEO}

\* C of the technical score: covered pages without a canonical link
CanonicalLacking == Cardinality({i \in Covered : ~pageResults[i].metaTags.canonical})

\* H of the technical score: heading issues on covered pages
HeadingIssueTotal ==
    SeqSum([i \in 1..Len(docs) |->
              IF i \in Covered THEN Len(pageResults[i].headings.issues) ELSE 0])

\* M of the technical score: analysed pages the sitemap's list does not name
AbsentFromSitemap ==
    Cardinality({i \in Analysed : PageName(i) \notin results.sitemapPages})

\* The technical score in half points for a sitemap penalty taken over m pages
TechnicalExpected(m) ==
    Max(0, 2 * 20 - 2 * CanonicalLacking - HeadingIssueTotal
           - (IF env.robots = "configured" THEN 0 ELSE 2 * 3)
           - Min(2 * 3, m))

\* C18: when a sitemap was read and at least one page was analysed, the
\* technical score is max(0, 20 - C - 0.5 H - R - min(3, 0.5 M)).
C18_TechnicalScoreFormula ==
    (/\ phase = "done"
     /\ env.sitemap \in {"all", "none"}
     /\ Analysed # {}) =>
        results.categoryScores["technicalSEO"].score =
            TechnicalExpected(AbsentFromSitemap)

\* The pages among `pages` whose record has a non-empty type list
WithTypes(pages) == {i \in pages : Len(pageResults[i].schemas) > 0}

\* Some page among `pages` exposes Product, FAQPage or LocalBusiness
ExposesRich(pages) ==
    \E i \in pages : \E k \in 1..Len(pageResults[i].schemas) :
        pageResults[i].schemas[k].type \in {"Product", "FAQPage", "LocalBusiness"}

\* min(20, round(20 * S / T) + B) in half points, with S and B taken over
\* `pages` and T the number of all analysed pages
StructuredExpected(pages) ==
    2 * Min(20, Round20(Cardinality(WithTypes(pages)), Cardinality(Analysed))
                + (IF ExposesRich(pages) THEN 2 ELSE 0))

\* C19 as stated: with at least one page analysed, the structured-data
\* score is min(20, round(20 S / T) + B), S and B taken over all pages,
\* covered or not.
C19_StructuredOverAllPages ==
    (phase = "done" /\ Analysed # {}) =>
        results.categoryScores["structuredData"].score = StructuredExpected(Analysed)

\* C19 amended: the same with S and B taken over the covered pages only; T
\* stays the number of all pages.
C19_StructuredOverCoveredPages ==
    (phase = "done" /\ Analysed # {}) =>
        results.categoryScores["structuredData"].score = StructuredExpected(Covered)

\* C19 witness: of two pages with a type list the covered one exposes
\* Product and the other is not covered; the score is round(20/2) + 2 = 12
C19_Witness ==
    /\ phase = "done"
    /\ Cardinality(Analysed) = 2
    /\ Cardinality(WithTypes(Analysed)) = 2
    /\ Cardinality(WithTypes(Covered)) = 1
    /\ ExposesRich(Covered)
    /\ results.categoryScores["structuredData"].score = 2 * 12

\* O and W of the social score over `pages`: the pages with at least four
\* open-graph fields, and with at least four card fields
WithOpenGraph(pages) ==
    {i \in pages : Cardinality(pageResults[i].metaTags.ogTags) >= 4}

WithCard(pages) ==
    {i \in pages : Cardinality(pageResults[i].metaTags.twitterTags) >= 4}

\* round(20 * ((O/T + W/T) / 2)) in half points, O and W taken over `pages`
SocialExpected(pages) ==
    2 * Round20(Cardinality(WithOpenGraph(pages)) + Cardinality(WithCard(pages)),
                2 * Cardinality(Analysed))

\* The covered pages whose metadata has an open-graph or a card issue
SocialIssuePages ==
    {i \in Covered :
        \E k \in 1..Len(pageResults[i].metaTags.issues) :
            pageResults[i].metaTags.issues[k].msg
                \in {"Missing Open Graph tags", "Missing Twitter Card tags"}}

\* The entries of the social category's issue list attributed to page i
SocialEntries(i) ==
    LET Of(e) == e.page = PageName(i) IN
    SelectSeq(results.categoryScores["socialSharing"].issues, Of)

\* Each covered page with a social issue has one entry, no other page any
OneEntryPerIssuePage ==
    /\ \A i \in 1..Len(docs) :
         Len(SocialEntries(i)) = (IF i \in SocialIssuePages THEN 1 ELSE 0)
    /\ Len(results.categoryScores["socialSharing"].issues)
          = Cardinality(SocialIssuePages)

\* C20 as stated: with at least one page analysed, the social score is
\* round(20 ((O/T + W/T) / 2)) with O and W counted over the documents,
\* whatever the number of pages with a social issue, each of which has
\* exactly one entry in the category's issue list.
C20_SocialOverAllPages ==
    (phase = "done" /\ Analysed # {}) =>
        /\ results.categoryScores["socialSharing"].score = SocialExpected(Analysed)
        /\ OneEntryPerIssuePage

\* C20 amended: the same with O and W counted over the covered pages only.
C20_SocialOverCoveredPages ==
    (phase = "done" /\ Analysed # {}) =>
        /\ results.categoryScores["socialSharing"].score = SocialExpected(Covered)
        /\ OneEntryPerIssuePage

\* C20 witness: two covered pages, one with all fields and one with none
\* and a social issue; the score is 10, where one point off would give 19
C20_Witness ==
    /\ phase = "done"
    /\ Cardinality(Analysed) = 2 /\ Cardinality(Covered) = 2
    /\ Cardinality(WithOpenGraph(Covered)) = 1
    /\ Cardinality(WithCard(Covered)) = 1
    /\ Cardinality(SocialIssuePages) = 1
    /\ Len(results.categoryScores["socialSharing"].issues) = 1
    /\ results.categoryScores["socialSharing"].score = 2 * 10

\* I of the metadata score: issue strings in the metadata of covered pages
CoveredMetaIssues ==
    SeqSum([i \in 1..Len(docs) |->
              IF i \in Covered THEN Len(pageResults[i].metaTags.issues) ELSE 0])

\* C21: with at least one page analysed, the metadata score is
\* max(0, 20 - 0.5 I - 2 U), I the issue strings of the covered records and
\* U the number of uncovered pages; the issues in the records of uncovered
\* pages are not counted.
C21_MetaScoreFormula ==
    (phase = "done" /\ Analysed # {}) =>
        results.categoryScores["metaTags"].score =
            Max(0, 2 * 20 - CoveredMetaIssues
                   - 2 * 2 * Cardinality(Analysed \ Covered))

\* C21 witness: a covered page with issues next to an uncovered page whose
\* own record has issues too; the score is 20 - 0.5 I - 2 and above 0
C21_Witness ==
    /\ phase = "done"
    /\ CoveredMetaIssues > 0
    /\ Cardinality(Analysed \ Covered) = 1
    /\ \E i \in Analysed \ Covered : Len(pageResults[i].metaTags.issues) > 0
    /\ results.categoryScores["metaTags"].score = 2 * 20 - CoveredMetaIssues - 4
    /\ results.categoryScores["metaTags"].score > 0

\* The image tags in the markup region of page i
MarkupImages(i) == IF docs[i].template THEN docs[i].imgs ELSE <<>>

\* N of the image score: image tags on covered pages
CoveredImages ==
    SeqSum([i \in 1..Len(docs) |-> IF i \in Covered THEN Len(MarkupImages(i)) ELSE 0])

\* A of the image score: those of them with alt text
CoveredImagesWithAlt ==
    LET HasAlt(img) == img.alt IN
    SeqSum([i \in 1..Len(docs) |->
              IF i \in Covered THEN Len(SelectSeq(MarkupImages(i), HasAlt)) ELSE 0])

CoveredImagesWithoutAlt == CoveredImages - CoveredImagesWithAlt

\* Some metadata issue of a covered page is a too-short / too-long issue
SomeLengthIssue ==
    \E i \in Covered : \E k \in 1..Len(pageResults[i].metaTags.issues) :
        pageResults[i].metaTags.issues[k].msg
            \in {"Title too short", "Title too long",
                 "Meta description too short", "Meta description too long"}

\* The texts of the entries of a quick-fix list, in order
FixTexts(fixes) == [k \in 1..Len(fixes) |-> fixes[k].fix]

\* C23: the quick fixes are, in this order, the open-graph recommendation
\* iff the social score is below 10, the alt-text fix iff some image on a
\* covered page lacks alt text, the length fix iff some metadata issue is a
\* too-short / too-long issue, and the add-SEO fix iff some page is uncovered.
C23_QuickFixChecks ==
    (phase = "done" /\ Analysed # {}) =>
        LET expected ==
                (IF results.categoryScores["socialSharing"].score < 2 * 10
                 THEN <<"Add Open Graph tags to all pages">> ELSE <<>>)
                \o (IF CoveredImagesWithoutAlt > 0
                    THEN <<"Add alt text to images">> ELSE <<>>)
                \o (IF SomeLengthIssue
                    THEN <<"Optimize title and description lengths">> ELSE <<>>)
                \o (IF Analysed \ Covered # {}
                    THEN <<"Add SEO to pages">> ELSE <<>>)
        IN  FixTexts(report.quickFixes) =
                IF expected = <<>>
                THEN <<"SEO implementation is well optimized!">>
                ELSE expected

\* The overall percentage of the stored category scores: their sum over the
\* maximum of 5 * 20 points, rounded (scores are kept in half points)
StoredPercentage ==
    LET cats == <<"metaTags", "technicalSEO", "structuredData", "imagesMedia",
                  "socialSharing">>
        halves == SeqSum([k \in 1..5 |-> results.categoryScores[cats[k]].score])
    IN  (halves + 1) \div 2

RecordsOf(pages, i) ==
    LET Is(page) == page.pageName = PageName(i) IN Len(SelectSeq(pages, Is))

\* C25: when the run is over, every readable page that is not on the ignore
\* list has yielded a record, and that record stands in exactly one of
\* pagesWithSEO / pagesWithoutSEO, once, whatever the sandbox returned.
C25_OneRecordPerReadablePage ==
    phase = "done" =>
        \A i \in 1..Len(docs) :
            (docs[i].readable /\ ~docs[i].ignored) =>
                /\ pageResults[i] # Null
                /\ RecordsOf(results.pagesWithSEO, i)
                   + RecordsOf(results.pagesWithoutSEO, i) = 1

\* The lengths of a metadata record that lie outside their band
OutOfBand(m) ==
    (IF m.title # NoLength /\ (m.title < TitleMin \/ m.title > TitleMax)
     THEN 1 ELSE 0)
    + (IF m.description # NoLength
          /\ (m.description < DescriptionMin \/ m.description > DescriptionMax)
       THEN 1 ELSE 0)

\* The required fields a metadata record lacks: title, description, the
\* members of the two required sets, the canonical link
MissingFields(m) ==
    (IF m.title = NoLength THEN 1 ELSE 0)
    + (IF m.description = NoLength THEN 1 ELSE 0)
    + Cardinality(Range(requiredOgTags) \ m.ogTags)
    + Cardinality(Range(requiredTwitterTags) \ m.twitterTags)
    + (IF m.canonical THEN 0 ELSE 1)

\* C26: the issue list of every metadata record, filled from the sandbox
\* output or from the text, has one issue string per out-of-band length and
\* one per missing required field.
C26_OneIssuePerMissingField ==
    \A i \in Analysed :
        Len(pageResults[i].metaTags.issues)
            = OutOfBand(pageResults[i].metaTags)
              + MissingFields(pageResults[i].metaTags)

\* evaluateGenerateSEO returned an output with a script payload for page i
HasPayload(i) ==
    /\ evalCalls[i] > 0
    /\ frame[i].how = "returned"
    /\ frame[i].value # Null
    /\ frame[i].value.script # Null

\* The payload of page i's output parses: it is well-formed JSON and the
\* analyser's JSON.parse is the native one
PayloadParses(i) == frame[i].value.script.wellFormed /\ hostJSON = "native"

\* The types of the graph members of page i's payload that have a type, in
\* graph order, a FAQPage member with its mainEntity length
GraphTypes(i) ==
    LET payload == frame[i].value.script
        Typed(item) == item.type # ""
        typed == IF payload.hasGraph THEN SelectSeq(payload.graph, Typed) ELSE <<>>
    IN  [k \in 1..Len(typed) |->
           IF typed[k].type = "FAQPage" /\ typed[k].mainEntity # NoLength
           THEN Schema("FAQPage", typed[k].mainEntity)
           ELSE Schema(typed[k].type, 0)]

\* C27 as stated: for a page whose sandbox output carries a script payload,
\* the type list is the types of the typed graph members when the payload
\* parses, and mapParamsToSchemas of the parameters when it does not.
C27_GraphTypesOrMapping ==
    \A i \in Analysed :
        HasPayload(i) =>
            pageResults[i].schemas =
                IF PayloadParses(i) THEN GraphTypes(i)
                ELSE mapParamsToSchemas(extractGenerateSEOParams(docs[i]))

\* C27 amended: the same, except that a payload that parses to an empty type
\* list (no graph, or no member with a type) leaves the list to the legacy
\* detection from the page text.
C27_GraphTypesElseLegacy ==
    \A i \in Analysed :
        HasPayload(i) =>
            pageResults[i].schemas =
                IF ~PayloadParses(i)
                THEN mapParamsToSchemas(extractGenerateSEOParams(docs[i]))
                ELSE IF GraphTypes(i) # <<>> THEN GraphTypes(i)
                ELSE legacySchemas(docs[i])

\* C27 witness: a payload whose graph holds an untyped member and a FAQPage
\* member with two entities was parsed for a page with a products parameter
C27_Witness ==
    \E i \in Analysed :
        /\ HasPayload(i) /\ PayloadParses(i)
        /\ frame[i].value.script.graph = InlineGraph
        /\ frame[i].params.products > 0
        /\ pageResults[i].schemas = <<Schema("WebPage", 0), Schema("FAQPage", 2)>>

\* The name and the alias under which the text may hold a required field
OgNames(field) ==
    CASE field = "title" -> {"og:title", "ogTitle"}
      [] field = "description" -> {"og:description", "ogDescription"}
      [] field = "image" -> {"og:image", "ogImage"}
      [] field = "url" -> {"og:url", "ogUrl"}

TwitterNames(field) ==
    CASE field = "card" -> {"twitter:card", "twitterCard"}
      [] field = "title" -> {"twitter:title", "twitterTitle"}
      [] field = "description" -> {"twitter:description", "twitterDescription"}
      [] field = "image" -> {"twitter:image", "twitterImage"}

\* The metadata record of page i holds an issue with the text msg
HasIssue(i, msg) ==
    \E k \in 1..Len(pageResults[i].metaTags.issues) :
        pageResults[i].metaTags.issues[k].msg = msg

\* C28: a record filled from the text of a page with generateSEO( has all
\* required open-graph and card fields and the canonical link present and
\* no issue about them; the record of a page without generateSEO( has a
\* required field present iff the text holds its name or its alias, and an
\* issue for each non-empty set of missing fields and for a missing canonical.
C28_StaticPresence ==
    \A i \in Analysed :
        LET m == pageResults[i].metaTags
            og == Range(requiredOgTags)
            twitter == Range(requiredTwitterTags)
        IN  ~m.dynamic =>
              IF docs[i].hasGenerateSEO
              THEN /\ og \subseteq m.ogTags
                   /\ twitter \subseteq m.twitterTags
                   /\ m.canonical
                   /\ ~HasIssue(i, "Missing Open Graph tags")
                   /\ ~HasIssue(i, "Missing Twitter Card tags")
                   /\ ~HasIssue(i, "Missing canonical URL")
              ELSE /\ \A f \in og :
                         f \in m.ogTags <=> OgNames(f) \cap docs[i].ogLiterals # {}
                   /\ \A f \in twitter :
                         f \in m.twitterTags
                            <=> TwitterNames(f) \cap docs[i].twitterLiterals # {}
                   /\ HasIssue(i, "Missing Open Graph tags") <=> ~(og \subseteq m.ogTags)
                   /\ HasIssue(i, "Missing Twitter Card tags")
                         <=> ~(twitter \subseteq m.twitterTags)
                   /\ HasIssue(i, "Missing canonical URL") <=> ~m.canonical
                   /\ m.canonical <=> docs[i].canonicalText

\* The heading levels in the markup region of page i, in order
MarkupHeadings(i) == IF docs[i].template THEN docs[i].headings ELSE <<>>

\* Some heading of page i is more than one level below the one before it
SkipsLevel(i) ==
    \E k \in 2..Len(MarkupHeadings(i)) :
        MarkupHeadings(i)[k] > MarkupHeadings(i)[k - 1] + 1

\* How often the heading issues of page i hold the hierarchy issue
HierarchyIssues(i) ==
    LET Is(issue) == issue.msg = "Heading hierarchy broken (skipped levels)"
    IN  Len(SelectSeq(pageResults[i].headings.issues, Is))

\* C29: the heading issues of a page hold the hierarchy issue exactly once
\* if some heading is more than one level deeper than the heading before
\* it, and not at all otherwise.
C29_HierarchyIssueOnce ==
    \A i \in Analysed : HierarchyIssues(i) = IF SkipsLevel(i) THEN 1 ELSE 0

\* C29 witness: the headings h1, h3, h5 skip a level twice and the record
\* holds the hierarchy issue once
C29_Witness ==
    \E i \in Analysed :
        /\ MarkupHeadings(i) = <<1, 3, 5>>
        /\ HierarchyIssues(i) = 1

\* The names of the pages of S, in discovery order
InDiscoveryOrder(S) ==
    LET In(i) == i \in S IN NamesOf(SelectSeq([i \in 1..Len(docs) |-> i], In))

\* The names of the records of a partition, in the partition's order
RecordNames(pages) == [k \in 1..Len(pages) |-> pages[k].pageName]

\* Page j completed before page i: checkPageSEO(j) ran to its return when it
\* was called, checkPageSEO(i) suspended at the sandbox call and completed
\* only after every page had been started
CompletedBefore(j, i) == evalCalls[j] = 0 /\ evalCalls[i] > 0 /\ pc[i] = "done"

\* C30: when the run is over, the records of each partition and the names
\* under each image of the index stand in discovery order, whatever the
\* order in which the analyses completed.
C30_DiscoveryOrder ==
    phase = "done" =>
        /\ RecordNames(results.pagesWithSEO) = InDiscoveryOrder(Covered)
        /\ RecordNames(results.pagesWithoutSEO) = InDiscoveryOrder(Analysed \ Covered)
        /\ \A image \in Images :
              results.ogImageUsage[image] =
                  InDiscoveryOrder({i \in Covered : ImageOf(i) = image})

\* C30 witness: the second page completed before the first, which had
\* suspended, and pagesWithSEO lists the first before the second
C30_Witness ==
    /\ phase = "done"
    /\ Len(docs) = 2
    /\ CompletedBefore(2, 1)
    /\ RecordNames(results.pagesWithSEO) = <<PageName(1), PageName(2)>>

=============================================================================
